---- MODULE Spec2Model ----
(***************************************************************************)
(* The transformation-attempt orchestrator (attemptAndValidateTransformation) *)
(* of the enzyme-to-rtl codemod, as a state machine.                        *)
(*                                                                         *)
(* Two tool-dispatching variants of the orchestrator are in the sources:   *)
(*   "unbudgeted"  attempt-and-validate-transformation.ts, lines 182-517   *)
(*   "budgeted"    unnamed/part_001, lines 138-578 (call budgets,          *)
(*                 disableUpdateComponent, type-check aware success)       *)
(* They share the loop and the handlers; the places where they differ are  *)
(* operators that take the variant.                                        *)
(***************************************************************************)
EXTENDS Integers, Sequences, FiniteSets, TLC

\* ---------------------------------------------------------------- bounds
\* most tool calls the modelled agent puts in one turn
MaxBatch == 2
\* most llmCallFunction invocations in a run of the submitting agent
MaxLLMCalls == 6
\* most llmCallFunction invocations in a run of the exploring agent
MaxExplorerTurns == 2
\* most tool calls the exploring agent sends in one run
MaxToolCalls == 4
\* largest number in a "Tests: ..." count line
MaxTests == 5
\* largest searchDepth passed to findRtlReferenceTests
MaxSearchDepth == 2
\* deepest directory of an origin file
MaxDepth == 2
\* most '..' at the head of a relative reference
MaxUps == 2
\* most names after the head of a relative reference
MaxDown == 2

\* ------------------------------------------------------ program constants
MAX_ATTEMPTS == 5
RequestForFileLimit == 3
RequestForReferenceTestsLimit == 1
UpdateComponentLimit == 1
StagnationAfterUnbudgeted == 3
StagnationAfterBudgeted == 4
NudgeAfter == 2
ReferenceTestLimit == 3

Variants == {"unbudgeted", "budgeted"}

\* The agents the model runs against: the submitter answers only with text,
\* nothing, or evaluateAndRun calls; the explorer uses every function name.
Agents == {"submitter", "explorer"}

\* JavaScript's undefined, for reads past the ends of previousSuccessRates
Undefined == -1

\* ------------------------------------------------- the validation runner
\* A runner log: whether it is the empty string, which failure markers occur
\* in it, and its "Tests: ..." count line (a group that is absent is -1).
NoCount == [present |-> FALSE, failed |-> -1, passed |-> -1, total |-> 0]

CountLine(f, p, t) == [present |-> TRUE, failed |-> f, passed |-> p, total |-> t]

Markers == {"FAIL", "No tests found", "Not run", "FATAL ERROR"}

JestLog(e, m, c) == [empty |-> e, markers |-> m, count |-> c]

\* the jest outputs the model draws from
JestLogs ==
    { JestLog(FALSE, {"FAIL"}, CountLine(2, 3, 5)),
      JestLog(FALSE, {}, CountLine(-1, 5, 5)) }

\* what runCommand does for the jest run: it throws, or it returns a log
RunnerOutcomes ==
    {[threw |-> TRUE, log |-> JestLog(TRUE, {}, NoCount)]}
        \cup {[threw |-> FALSE, log |-> l] : l \in JestLogs}

\* what the type-check command does: clean output, output with "error", throw
TypeCheckOutcomes == {"clean", "error", "threw"}

\* analyzeLogsForErrors looking for 'FAIL' alone
analyzeLogsForFailOnly(log) == ~(log.empty \/ "FAIL" \in log.markers)

analyzeLogsForErrors(log) == ~(log.empty \/ log.markers # {})

NaNToZero(n) == IF n < 0 THEN 0 ELSE n

\* JavaScript's Infinity, which (passed / total) * 100 is for 0 total and
\* passed > 0
Infinity == 1000000

\* (passed / total) * 100 || 0, where that is an integer or Infinity; a
\* passed group that is absent is NaN, and so is 0 / 0
SuccessRateOf(passed, total) ==
    IF passed < 0 THEN 0
    ELSE IF total = 0 THEN (IF passed = 0 THEN 0 ELSE Infinity)
    ELSE (passed * 100) \div total

extractTestResults(log) ==
    IF log.count.present
    THEN [failedTests |-> NaNToZero(log.count.failed),
          passedTests |-> NaNToZero(log.count.passed),
          totalTests  |-> log.count.total,
          successRate |-> SuccessRateOf(log.count.passed, log.count.total)]
    ELSE [failedTests |-> 0, passedTests |-> 0, totalTests |-> 0, successRate |-> 0]

analyseTypeCheckLogs(tc) == tc = "clean"

\* The value "no result" (null) and the results, as records of one shape.
NullResult ==
    [isNull |-> TRUE, testPass |-> FALSE, typeCheckPass |-> FALSE,
     failedTests |-> 0, passedTests |-> 0, totalTests |-> 0, successRate |-> 0]

runTestAndAnalyzeThrowLeftAlone(run, tc) ==
    LET d == extractTestResults(run.log)
    IN [isNull        |-> FALSE,
        testPass      |-> ~run.threw => analyzeLogsForErrors(run.log),
        typeCheckPass |-> IF tc = "threw" THEN FALSE ELSE analyseTypeCheckLogs(tc),
        failedTests   |-> d.failedTests,
        passedTests   |-> d.passedTests,
        totalTests    |-> d.totalTests,
        successRate   |-> d.successRate]

runTestAndAnalyze(run, tc) ==
    LET d == IF run.threw
             THEN [failedTests |-> 0, passedTests |-> 0, totalTests |-> 0, successRate |-> 0]
             ELSE extractTestResults(run.log)
    IN [isNull        |-> FALSE,
        testPass      |-> IF run.threw THEN FALSE ELSE analyzeLogsForErrors(run.log),
        typeCheckPass |-> IF tc = "threw" THEN FALSE ELSE analyseTypeCheckLogs(tc),
        failedTests   |-> d.failedTests,
        passedTests   |-> d.passedTests,
        totalTests    |-> d.totalTests,
        successRate   |-> d.successRate]


\* ------------------------------------------------------- the orchestrator
HelperNames == {"requestForFile", "requestForReferenceTests", "updateComponent"}

\* the kinds of argument string an agent sends with each function name
ArgsOf(name) ==
    CASE name = "requestForFile" -> {"valid", "badjson"}
      [] name = "requestForReferenceTests" -> {"valid", "badjson"}
      [] name = "updateComponent" -> {"valid", "invalid", "badjson"}
      [] name = "evaluateAndRun" -> {"file", "noFile", "badjson"}
      [] OTHER -> {"valid"}

ToolCall(id, name, args) == [id |-> id, name |-> name, args |-> args]

NoToolCall == ToolCall(0, "", "")

\* a conversation message: role, tool_call_id (0 when none), tool name, the
\* kind of its content, the helper names its text lists, and the attempts
\* remaining it states (-1 when it states none)
Msg(role, id, name, kind, names, remaining) ==
    [role |-> role, id |-> id, name |-> name, kind |-> kind,
     names |-> names, remaining |-> remaining]

SystemMsg == Msg("system", 0, "", "prompt", {}, -1)

AssistantMsg == Msg("assistant", 0, "", "message", {}, -1)

ToolMsg(tc, kind) == Msg("tool", tc.id, tc.name, kind, {}, -1)

failedTestsTryAgainInItsPlace == Msg("user", 0, "", "tryAgain", {}, -1)

failedToCallFunctionUserMessage == Msg("user", 0, "", "failedToCall", {}, -1)

\* FUNCTION_CALL_LIMITS; the updateComponent key is absent when the capability
\* is disabled and is then read as 0 (?? 0)
FUNCTION_CALL_LIMITS(dis) ==
    [n \in HelperNames |->
        CASE n = "requestForFile" -> RequestForFileLimit
          [] n = "requestForReferenceTests" -> RequestForReferenceTestsLimit
          [] OTHER -> IF dis THEN 0 ELSE UpdateComponentLimit]

LimitExceeded(v, counts, dis, n) ==
    v = "budgeted" /\ counts[n] > FUNCTION_CALL_LIMITS(dis)[n]

\* the budget check made before a helper is dispatched (budgeted variant only)
LimitReached(v, counts, dis, n) ==
    v = "budgeted" /\ counts[n] >= FUNCTION_CALL_LIMITS(dis)[n]

CountCallTwice(v, counts, n) ==
    IF v = "budgeted" THEN [counts EXCEPT ![n] = @ + 2] ELSE counts

\* functionCallCounts.x++ (budgeted variant only)
CountCall(v, counts, n) ==
    IF v = "budgeted" THEN [counts EXCEPT ![n] = @ + 1] ELSE counts

\* usedFunctions.x = true (budgeted variant only)
MarkUsed(v, used, n) ==
    IF v = "budgeted" THEN [used EXCEPT ![n] = TRUE] ELSE used

UpdateComponentNeverDisabled(v, dis) == FALSE

\* the disabled check at the head of the updateComponent branch
UpdateComponentDisabled(v, dis) == v = "budgeted" /\ dis

LoopContinuesStrict(ac) == ac < MAX_ATTEMPTS

IncrementAttemptTwice(ac) == ac + 2

\* attemptCounter = attemptCounter + 1, in the evaluateAndRun branch
IncrementAttempt(ac) == ac + 1

\* while (attemptCounter <= MAX_ATTEMPTS)
LoopContinues(ac) == ac <= MAX_ATTEMPTS

\* the success test, had it looked at testPass alone
IsSuccessOnTestsAlone(v, r) == ~r.isNull /\ r.testPass

\* the success test made after a turn that held an evaluateAndRun call
IsSuccess(v, r) ==
    /\ ~r.isNull
    /\ r.testPass
    /\ (v = "budgeted" => r.typeCheckPass)

StagnationAfterLate(v) == MAX_ATTEMPTS

\* the stagnation threshold of the unbudgeted orchestrator in both
StagnationAfterEarly(v) == StagnationAfterUnbudgeted

StagnationAfter(v) ==
    IF v = "unbudgeted" THEN StagnationAfterUnbudgeted ELSE StagnationAfterBudgeted

\* previousSuccessRates[i] in JavaScript, i counted from 1 here
RateAt(rates, i) == IF i \in 1..Len(rates) THEN rates[i] ELSE Undefined

LastThreeIdentical(rates) ==
    LET n == Len(rates)
    IN  /\ RateAt(rates, n) = RateAt(rates, n - 1)
        /\ RateAt(rates, n - 1) = RateAt(rates, n - 2)

ShouldBreakOnStagnation(v, ac, rates) ==
    ac > StagnationAfter(v) /\ LastThreeIdentical(rates)

ReturnValuePassing(r) == IF r.testPass THEN r ELSE NullResult

ReturnValueNull(r) == NullResult

PushRateInFront(rates, r) == << r.successRate >> \o rates

\* previousSuccessRates.push(finalResult?.successRate || 0)
PushRate(rates, r) == Append(rates, r.successRate)

\* return finalResult
ReturnValue(r) == r

\* the helper names the budgeted guidance collects as unused
UnusedFunctions(used, dis) ==
    { n \in HelperNames : ~used[n] /\ (n = "updateComponent" => ~dis) }

\* remainingAttemptsMessage: the stated count, 0 standing for the
\* "final attempt" wording
remainingAttemptsMessage(rem) == IF rem > 1 THEN rem ELSE 0

\* the updateComponent handler's try block, had it only parsed the arguments
UpdateArgsRejectedWhenUnparsed(args) == args = "badjson"

\* the updateComponent handler's try block throws before
\* updateComponentContent: the arguments do not parse ("badjson"), or lack a
\* target, newContent or explanation ("invalid")
UpdateArgsRejected(args) == args # "valid"

\* the names of the tools getFunctions returns
getFunctions(dis) ==
    {"requestForFile", "requestForReferenceTests", "evaluateAndRun"}
        \cup (IF dis THEN {} ELSE {"updateComponent"})

\* the filter callback on tools: evaluateAndRun is left out past attempt 2
\* when the last result failed its tests and a helper is unused
FilteredOut(name, ac, fr, used, dis) ==
    /\ ac > NudgeAfter
    /\ ~fr.isNull
    /\ fr.testPass = FALSE
    /\ UnusedFunctions(used, dis) # {}
    /\ name = "evaluateAndRun"

\* tools, had the filter been run again before each llmCallFunction call
toolsFilteredAtEachCall(dis, ac, fr, used) ==
    { name \in getFunctions(dis) : ~FilteredOut(name, ac, fr, used, dis) }

\* tools as passed to llmCallFunction when the loop has attemptCounter ac,
\* finalResult fr and usedFunctions used: the filter has run once, before the
\* loop, with attemptCounter 1, so that none of these reaches it
tools(dis, ac, fr, used) ==
    { name \in getFunctions(dis) :
        ~FilteredOut(name, 1, NullResult, [n \in HelperNames |-> FALSE], dis) }

\* the guidance pushed after a turn whose submit did not end the run
GuidanceMessages(v, ac, rem, used, dis) ==
    IF v = "budgeted"
    THEN IF ac > NudgeAfter /\ UnusedFunctions(used, dis) # {}
         THEN << Msg("user", 0, "", "useHelpers",
                     UnusedFunctions(used, dis)
                         \cap {"requestForReferenceTests", "requestForFile"},
                     remainingAttemptsMessage(rem)) >>
         ELSE << Msg("user", 0, "", "tryAgain", {}, remainingAttemptsMessage(rem)) >>
    ELSE << Msg("user", 0, "", "tryAgain", {}, -1),
            Msg("user", 0, "", "remaining", {}, remainingAttemptsMessage(rem)) >>

VARIABLES
    agent,                    \* which agent answers llmCallFunction
    toolCallsReceived,        \* tool calls the agent has sent so far
    variant,                  \* which orchestrator runs
    disableUpdateComponent,   \* run configuration
    pc,                       \* "callLLM", "dispatch", "afterDispatch", "done", "threw"
    attemptCounter,
    attemptsRemaining,
    previousSuccessRates,
    functionCallCounts,
    usedFunctions,
    finalResult,
    pushed,                   \* the messages.push calls of the last step, in order
    toolCallsLen,             \* toolCalls.length of the agent message being processed
    idx,                      \* place of the for loop in toolCalls
    toolCall,                 \* the tool call the last step dispatched
    hasEvaluateAndRunCall,
    calls,                    \* how often each collaborator has been invoked
    onlySubmitTurns,          \* every agent turn so far was one well-formed evaluateAndRun
    response,                 \* what the last llmCallFunction call gave back
    toolResults,              \* tool_call_ids answered since the last agent message
    jestRun,                  \* what the jest command did in the last runTestAndAnalyze
    writtenSinceRun,          \* updateComponentContent has written since the last runTestAndAnalyze
    filePaths,                \* convertTestFiles: the resolved filePaths
    skipFiles,                \* the resolved skipFiles
    onlyConvertFullyPassingTests,
    fileIndex,                \* place of the for loop in filePaths
    initialized,              \* the files initializeConfig has made a config for
    transformationResult,     \* what attemptAndValidateTransformation resolved to last
    totalResults,
    originals,                \* what each original test file holds: "enzyme" or "rtl"
    testRuns,                 \* the test run on each updated original: "none", "running", "complete"
    cleanedUp,                \* the files cleanupSnapshots has run for
    generatedSummary,
    toolsOffered,             \* the names in the tools of the last llmCallFunction call
    fnArgs,                   \* the arguments of the last call of a helper function
    fnResult,                 \* what that call gave back
    returned                  \* the value returned once pc = "done"

vars ==
    << agent, toolCallsReceived, variant, disableUpdateComponent, pc, attemptCounter, attemptsRemaining,
       previousSuccessRates, functionCallCounts, usedFunctions, finalResult,
       pushed, toolCallsLen, idx, toolCall, hasEvaluateAndRunCall, calls,
       onlySubmitTurns, response, toolResults, jestRun, writtenSinceRun, toolsOffered, fnArgs, fnResult, returned,
       filePaths, skipFiles, onlyConvertFullyPassingTests, fileIndex, initialized,
       transformationResult, totalResults, originals, testRuns, cleanedUp, generatedSummary >>

conversion ==
    << fileIndex, initialized, transformationResult, totalResults, originals, testRuns,
       cleanedUp, generatedSummary >>

convertArgs == << filePaths, skipFiles, onlyConvertFullyPassingTests >>

config == << agent, variant, disableUpdateComponent >>

\* the runner has not been started yet
NoRun == [threw |-> FALSE, log |-> JestLog(TRUE, {}, NoCount)]

\* the tool_call_ids of the tool messages among msgs, in order
ToolResultIds(msgs) ==
    LET answers == SelectSeq(msgs, LAMBDA m : m.role = "tool")
    IN  [i \in 1..Len(answers) |-> answers[i].id]

\* no helper function has been called on its own
NoCall == [called |-> FALSE]

NoCalls ==
    [llmCallFunction |-> 0, runTestAndAnalyze |-> 0, extractCodeContentToFile |-> 0,
     getComponentContent |-> 0, findRtlReferenceTests |-> 0, updateComponentContent |-> 0]

\* ------------------------------------------------------------ convertTestFiles
\* convertTestFiles of the workflow with skipFiles and
\* onlyConvertFullyPassingTests. A path is the sequence of its characters.
MaxFiles == 2

ConvertPaths ==
    { << "/", "a", ".", "a" >>, << "/", "a", "-", "a" >>, << "/", "b" >> }

\* the characters of the class [<>:"/|?*.]
ReplacedChars == {"<", ">", ":", "\"", "/", "|", "?", "*", "."}

RECURSIVE DropReplaced(_)
DropReplaced(s) ==
    IF s # << >> /\ Head(s) \in ReplacedChars THEN DropReplaced(Tail(s)) ELSE s

\* filePath.replace(/[<>:"/|?*.]+/g, '-')
RECURSIVE filePathClean(_)
filePathClean(s) ==
    IF s = << >>
    THEN << >>
    ELSE IF Head(s) \in ReplacedChars
         THEN << "-" >> \o filePathClean(DropReplaced(Tail(s)))
         ELSE << Head(s) >> \o filePathClean(Tail(s))

\* what attemptAndValidateTransformation resolves to, besides null
FullyPassing ==
    [isNull |-> FALSE, testPass |-> TRUE, typeCheckPass |-> TRUE,
     failedTests |-> 0, passedTests |-> 2, totalTests |-> 2, successRate |-> 100]

PassingWithTypeErrors ==
    [isNull |-> FALSE, testPass |-> TRUE, typeCheckPass |-> FALSE,
     failedTests |-> 0, passedTests |-> 2, totalTests |-> 2, successRate |-> 100]

TestsFailing ==
    [isNull |-> FALSE, testPass |-> FALSE, typeCheckPass |-> TRUE,
     failedTests |-> 1, passedTests |-> 1, totalTests |-> 2, successRate |-> 50]

TransformationResults == {NullResult, FullyPassing, PassingWithTypeErrors, TestsFailing}

\* the failed result stored for a file that was not transformed; it has no
\* typeCheckPass, which reads as false
FailedResult ==
    [isNull |-> FALSE, testPass |-> FALSE, typeCheckPass |-> FALSE,
     failedTests |-> 0, passedTests |-> 0, totalTests |-> 0, successRate |-> 0]

\* totalResults[key] = r
StoreResult(results, key, r) ==
    [k \in DOMAIN results \cup {key} |-> IF k = key THEN r ELSE results[k]]

\* a null result that leaves totalResults alone
OnNullResultDropped(results, filePath) == results

\* the branch of a null transformationResult
OnNullResult(results, filePath) ==
    StoreResult(results, filePathClean(filePath), FailedResult)

\* the condition under which the original file is updated
ShouldUpdateOriginal(only, r) == (only /\ r.testPass) \/ ~only

\* the sum of the numbers n[k], k in keys
RECURSIVE SumOver(_, _)
SumOver(n, keys) ==
    IF keys = {}
    THEN 0
    ELSE LET k == CHOOSE x \in keys : TRUE
         IN  n[k] + SumOver(n, keys \ {k})

\* totalSuccessRate is the fraction num / den, that is
\* (sum of successRate / 100 * totalTests) / totalTests * 100
generateSummaryJson(testResults) ==
    LET keys == DOMAIN testResults
        total == SumOver([k \in keys |-> testResults[k].totalTests], keys)
    IN  [summary |->
            [totalTests |-> total,
             totalSuccessRate |->
                 IF total > 0
                 THEN [num |-> SumOver([k \in keys |-> testResults[k].successRate * testResults[k].totalTests], keys),
                       den |-> total]
                 ELSE [num |-> 0, den |-> 1],
             convertedAndPassed |-> SumOver([k \in keys |-> testResults[k].passedTests], keys),
             convertedAndFailed |-> SumOver([k \in keys |-> testResults[k].failedTests], keys)],
         results |-> testResults]

NoResults == [k \in {} |-> FailedResult]

NoSummary == generateSummaryJson(NoResults)

FileLists ==
    { s \in UNION { [1..n -> ConvertPaths] : n \in 0..MaxFiles } :
        \A i, j \in 1..Len(s) : s[i] = s[j] => i = j }

\* convertTestFiles before its loop
ConversionStart ==
    /\ fileIndex = 1
    /\ initialized = {}
    /\ transformationResult = NullResult
    /\ totalResults = NoResults
    /\ originals = [f \in ConvertPaths |-> "enzyme"]
    /\ testRuns = [f \in ConvertPaths |-> "none"]
    /\ cleanedUp = {}
    /\ generatedSummary = NoSummary

\* convertTestFiles is not running
NotConverting ==
    /\ filePaths = << >>
    /\ skipFiles = {}
    /\ onlyConvertFullyPassingTests = FALSE
    /\ ConversionStart

Init ==
    /\ agent \in Agents
    /\ toolCallsReceived = 0
    /\ variant \in Variants
    /\ disableUpdateComponent \in (IF variant = "budgeted" THEN BOOLEAN ELSE {FALSE})
    /\ pc = "callLLM"
    /\ attemptCounter = 1
    /\ attemptsRemaining = MAX_ATTEMPTS - 1
    /\ previousSuccessRates = << >>
    /\ functionCallCounts = [n \in HelperNames |-> 0]
    /\ usedFunctions = [n \in HelperNames |-> FALSE]
    /\ finalResult = NullResult
    /\ pushed = << SystemMsg >>
    /\ toolCallsLen = 0
    /\ idx = 1
    /\ toolCall = NoToolCall
    /\ hasEvaluateAndRunCall = FALSE
    /\ calls = NoCalls
    /\ onlySubmitTurns = TRUE
    /\ response = "none"
    /\ toolResults = << >>
    /\ jestRun = NoRun
    /\ writtenSinceRun = FALSE
    /\ NotConverting
    /\ toolsOffered = {}
    /\ fnArgs = NoCall
    /\ fnResult = NoCall
    /\ returned = NullResult

\* ---- one iteration of the while loop up to the for loop
TurnBound(a) == IF a = "submitter" THEN MaxLLMCalls ELSE MaxExplorerTurns

CanCallLLM == pc = "callLLM" /\ calls.llmCallFunction < TurnBound(agent)

Called == [calls EXCEPT !.llmCallFunction = @ + 1]

\* llmCallFunction throws: break, return finalResult
LLMCallThrows ==
    /\ CanCallLLM
    /\ calls' = Called
    /\ response' = "threw"
    /\ toolResults' = << >>
    /\ attemptsRemaining' = MAX_ATTEMPTS - attemptCounter
    /\ pushed' = << >>
    /\ toolCall' = NoToolCall
    /\ onlySubmitTurns' = FALSE
    /\ pc' = "done"
    /\ returned' = ReturnValue(finalResult)
    /\ toolsOffered' = tools(disableUpdateComponent, attemptCounter, finalResult, usedFunctions)
    /\ UNCHANGED << config, convertArgs, conversion, writtenSinceRun, fnArgs, fnResult, jestRun, toolCallsReceived, attemptCounter, previousSuccessRates, functionCallCounts,
                    usedFunctions, finalResult, toolCallsLen, idx, hasEvaluateAndRunCall >>

\* text and no tool calls: push the message and the corrective instruction, continue
LLMRespondsTextOnly ==
    /\ CanCallLLM
    /\ calls' = Called
    /\ response' = "text"
    /\ toolResults' = << >>
    /\ attemptsRemaining' = MAX_ATTEMPTS - attemptCounter
    /\ pushed' = << AssistantMsg, failedToCallFunctionUserMessage >>
    /\ toolCall' = NoToolCall
    /\ onlySubmitTurns' = FALSE
    /\ IF LoopContinues(attemptCounter)
       THEN pc' = "callLLM" /\ UNCHANGED returned
       ELSE pc' = "done" /\ returned' = ReturnValue(finalResult)
    /\ toolsOffered' = tools(disableUpdateComponent, attemptCounter, finalResult, usedFunctions)
    /\ UNCHANGED << config, convertArgs, conversion, writtenSinceRun, fnArgs, fnResult, jestRun, toolCallsReceived, attemptCounter, previousSuccessRates, functionCallCounts,
                    usedFunctions, finalResult, toolCallsLen, idx, hasEvaluateAndRunCall >>

\* no text and tool_calls undefined: for...of over undefined throws a TypeError
LLMRespondsNothing ==
    /\ CanCallLLM
    /\ calls' = Called
    /\ response' = "nothing"
    /\ toolResults' = << >>
    /\ attemptsRemaining' = MAX_ATTEMPTS - attemptCounter
    /\ pushed' = << AssistantMsg >>
    /\ toolCall' = NoToolCall
    /\ onlySubmitTurns' = FALSE
    /\ hasEvaluateAndRunCall' = FALSE
    /\ pc' = "threw"
    /\ toolsOffered' = tools(disableUpdateComponent, attemptCounter, finalResult, usedFunctions)
    /\ UNCHANGED << config, convertArgs, conversion, writtenSinceRun, fnArgs, fnResult, jestRun, toolCallsReceived, attemptCounter, previousSuccessRates, functionCallCounts,
                    usedFunctions, finalResult, toolCallsLen, idx, returned >>

\* a message with n tool_calls (an empty list when n = 0): push it, start the for loop
LLMRespondsToolCalls ==
    /\ CanCallLLM
    /\ \E n \in 0..MaxBatch :
        /\ agent = "explorer" => toolCallsReceived + n <= MaxToolCalls
        /\ toolCallsReceived' = toolCallsReceived + n
        /\ toolCallsLen' = n
        /\ onlySubmitTurns' = (onlySubmitTurns /\ n = 1)
        /\ pc' = IF n = 0 THEN "afterDispatch" ELSE "dispatch"
    /\ calls' = Called
    /\ response' = "toolCalls"
    /\ toolResults' = << >>
    /\ attemptsRemaining' = MAX_ATTEMPTS - attemptCounter
    /\ pushed' = << AssistantMsg >>
    /\ toolCall' = NoToolCall
    /\ idx' = 1
    /\ hasEvaluateAndRunCall' = FALSE
    /\ toolsOffered' = tools(disableUpdateComponent, attemptCounter, finalResult, usedFunctions)
    /\ UNCHANGED << config, convertArgs, conversion, writtenSinceRun, fnArgs, fnResult, jestRun, attemptCounter, previousSuccessRates, functionCallCounts,
                    usedFunctions, finalResult, returned >>

\* ---- the for loop over toolCalls: one handler per function name; the tool
\* call at place idx is read when the loop reaches it
Dispatching == pc = "dispatch" /\ idx \in 1..toolCallsLen

\* the function names only the exploring agent sends
Exploring == Dispatching /\ agent = "explorer"

\* the next tool call, or the end of the for loop
NextToolCall ==
    /\ idx' = idx + 1
    /\ pc' = IF idx + 1 > toolCallsLen THEN "afterDispatch" ELSE "dispatch"

HandleRequestForFile ==
    /\ Exploring
    /\ \E args \in ArgsOf("requestForFile") :
       LET tc == ToolCall(idx, "requestForFile", args)
       IN /\ toolCall' = tc
          /\ IF LimitReached(variant, functionCallCounts, disableUpdateComponent, tc.name)
             THEN /\ pushed' = << ToolMsg(tc, "limitReached") >>
                  /\ UNCHANGED << functionCallCounts, usedFunctions, calls >>
             ELSE /\ functionCallCounts' = CountCall(variant, functionCallCounts, tc.name)
                  /\ usedFunctions' = MarkUsed(variant, usedFunctions, tc.name)
                  /\ IF tc.args = "badjson"
                     THEN /\ pushed' = << ToolMsg(tc, "error") >>
                          /\ UNCHANGED calls
                     ELSE /\ calls' = [calls EXCEPT !.getComponentContent = @ + 1]
                          /\ \E found \in BOOLEAN :
                               pushed' = << ToolMsg(tc, IF found THEN "fileContent"
                                                                 ELSE "fileNotFound") >>
    /\ NextToolCall
    /\ onlySubmitTurns' = FALSE
    /\ toolResults' = toolResults \o ToolResultIds(pushed')
    /\ UNCHANGED << config, convertArgs, conversion, writtenSinceRun, toolsOffered, fnArgs, fnResult, response, jestRun, toolCallsReceived, attemptCounter, attemptsRemaining, previousSuccessRates,
                    finalResult, toolCallsLen, hasEvaluateAndRunCall, returned >>

HandleRequestForReferenceTests ==
    /\ Exploring
    /\ \E args \in ArgsOf("requestForReferenceTests") :
       LET tc == ToolCall(idx, "requestForReferenceTests", args)
       IN /\ toolCall' = tc
          /\ IF LimitReached(variant, functionCallCounts, disableUpdateComponent, tc.name)
             THEN /\ pushed' = << ToolMsg(tc, "limitReached") >>
                  /\ UNCHANGED << functionCallCounts, usedFunctions, calls >>
             ELSE /\ functionCallCounts' = CountCall(variant, functionCallCounts, tc.name)
                  /\ usedFunctions' = MarkUsed(variant, usedFunctions, tc.name)
                  /\ IF tc.args = "badjson"
                     THEN /\ pushed' = << ToolMsg(tc, "error") >>
                          /\ UNCHANGED calls
                     ELSE /\ calls' = [calls EXCEPT !.findRtlReferenceTests = @ + 1]
                          /\ \E found \in BOOLEAN :
                               pushed' = << ToolMsg(tc, IF found THEN "referenceTests"
                                                                 ELSE "noReferenceTests") >>
    /\ NextToolCall
    /\ onlySubmitTurns' = FALSE
    /\ toolResults' = toolResults \o ToolResultIds(pushed')
    /\ UNCHANGED << config, convertArgs, conversion, writtenSinceRun, toolsOffered, fnArgs, fnResult, response, jestRun, toolCallsReceived, attemptCounter, attemptsRemaining, previousSuccessRates,
                    finalResult, toolCallsLen, hasEvaluateAndRunCall, returned >>

HandleUpdateComponent ==
    /\ Exploring
    /\ \E args \in ArgsOf("updateComponent") :
       LET tc == ToolCall(idx, "updateComponent", args)
       IN /\ toolCall' = tc
          /\ IF UpdateComponentDisabled(variant, disableUpdateComponent)
             THEN /\ pushed' = << ToolMsg(tc, "disabled") >>
                  /\ UNCHANGED << functionCallCounts, usedFunctions, calls, writtenSinceRun >>
             ELSE IF LimitReached(variant, functionCallCounts, disableUpdateComponent, tc.name)
             THEN /\ pushed' = << ToolMsg(tc, "limitReached") >>
                  /\ UNCHANGED << functionCallCounts, usedFunctions, calls, writtenSinceRun >>
             ELSE /\ functionCallCounts' = CountCall(variant, functionCallCounts, tc.name)
                  /\ usedFunctions' = MarkUsed(variant, usedFunctions, tc.name)
                  /\ IF UpdateArgsRejected(tc.args)
                     THEN /\ pushed' = << ToolMsg(tc, "error") >>
                          /\ UNCHANGED << calls, writtenSinceRun >>
                     ELSE /\ calls' = [calls EXCEPT !.updateComponentContent = @ + 1]
                          /\ \E ok \in BOOLEAN :
                               /\ pushed' = << ToolMsg(tc, IF ok THEN "updated"
                                                                 ELSE "updateFailed") >>
                               /\ writtenSinceRun' = (ok \/ writtenSinceRun)
    /\ NextToolCall
    /\ onlySubmitTurns' = FALSE
    /\ toolResults' = toolResults \o ToolResultIds(pushed')
    /\ UNCHANGED << config, convertArgs, conversion, toolsOffered, fnArgs, fnResult, response, jestRun, toolCallsReceived, attemptCounter, attemptsRemaining, previousSuccessRates,
                    finalResult, toolCallsLen, hasEvaluateAndRunCall, returned >>

\* evaluateAndRun whose arguments do not parse: break out of the for loop
HandleEvaluateAndRunUnparsed ==
    /\ Dispatching
    /\ toolCall' = ToolCall(idx, "evaluateAndRun", "badjson")
    /\ hasEvaluateAndRunCall' = TRUE
    /\ attemptCounter' = IncrementAttempt(attemptCounter)
    /\ pushed' = << >>
    /\ pc' = "afterDispatch"
    /\ onlySubmitTurns' = FALSE
    /\ toolResults' = toolResults \o ToolResultIds(pushed')
    /\ UNCHANGED << config, convertArgs, conversion, writtenSinceRun, toolsOffered, fnArgs, fnResult, response, jestRun, toolCallsReceived, attemptsRemaining, previousSuccessRates, functionCallCounts,
                    usedFunctions, finalResult, toolCallsLen, idx, calls, returned >>

\* evaluateAndRun with no file: extractCodeContentToFile throws, outside any try
HandleEvaluateAndRunNoFile ==
    /\ Dispatching
    /\ toolCall' = ToolCall(idx, "evaluateAndRun", "noFile")
    /\ hasEvaluateAndRunCall' = TRUE
    /\ attemptCounter' = IncrementAttempt(attemptCounter)
    /\ calls' = [calls EXCEPT !.extractCodeContentToFile = @ + 1]
    /\ pushed' = << >>
    /\ pc' = "threw"
    /\ onlySubmitTurns' = FALSE
    /\ toolResults' = toolResults \o ToolResultIds(pushed')
    /\ UNCHANGED << config, convertArgs, conversion, writtenSinceRun, toolsOffered, fnArgs, fnResult, response, jestRun, toolCallsReceived, attemptsRemaining, previousSuccessRates, functionCallCounts,
                    usedFunctions, finalResult, toolCallsLen, idx, returned >>

\* evaluateAndRun with a file: write it, run the tests, record the result
HandleEvaluateAndRun ==
    /\ Dispatching
    /\ toolCall' = ToolCall(idx, "evaluateAndRun", "file")
    /\ hasEvaluateAndRunCall' = TRUE
    /\ attemptCounter' = IncrementAttempt(attemptCounter)
    /\ calls' = [calls EXCEPT !.extractCodeContentToFile = @ + 1,
                              !.runTestAndAnalyze = @ + 1]
    /\ \E run \in RunnerOutcomes : \E tc \in TypeCheckOutcomes :
          /\ jestRun' = run
          /\ finalResult' = runTestAndAnalyze(run, tc)
    /\ previousSuccessRates' = PushRate(previousSuccessRates, finalResult')
    /\ pushed' = << ToolMsg(toolCall', "runLogs") >>
    /\ NextToolCall
    /\ toolResults' = toolResults \o ToolResultIds(pushed')
    /\ writtenSinceRun' = FALSE
    /\ UNCHANGED << config, convertArgs, conversion, toolsOffered, fnArgs, fnResult, response, toolCallsReceived, attemptsRemaining, functionCallCounts, usedFunctions,
                    toolCallsLen, onlySubmitTurns, returned >>

\* a function name no branch matches: nothing is pushed
HandleOtherName ==
    /\ Exploring
    /\ toolCall' = ToolCall(idx, "someOtherName", "valid")
    /\ pushed' = << >>
    /\ NextToolCall
    /\ onlySubmitTurns' = FALSE
    /\ toolResults' = toolResults \o ToolResultIds(pushed')
    /\ UNCHANGED << config, convertArgs, conversion, writtenSinceRun, toolsOffered, fnArgs, fnResult, response, jestRun, toolCallsReceived, attemptCounter, attemptsRemaining, previousSuccessRates,
                    functionCallCounts, usedFunctions, finalResult,
                    toolCallsLen, hasEvaluateAndRunCall, calls, returned >>

\* ---- after the for loop
AfterDispatch == pc = "afterDispatch"

\* back to the loop condition, or out of the loop
LoopOrReturn ==
    IF LoopContinues(attemptCounter)
    THEN pc' = "callLLM" /\ UNCHANGED returned
    ELSE pc' = "done" /\ returned' = ReturnValue(finalResult)

TerminateOnSuccess ==
    /\ AfterDispatch
    /\ hasEvaluateAndRunCall
    /\ IsSuccess(variant, finalResult)
    /\ pc' = "done"
    /\ returned' = ReturnValue(finalResult)
    /\ pushed' = << >>
    /\ UNCHANGED << config, convertArgs, conversion, writtenSinceRun, toolsOffered, fnArgs, fnResult, response, toolResults, jestRun, toolCallsReceived, attemptCounter, attemptsRemaining, previousSuccessRates,
                    functionCallCounts, usedFunctions, finalResult,
                    toolCallsLen, idx, toolCall, hasEvaluateAndRunCall, calls,
                    onlySubmitTurns >>

TerminateOnStagnation ==
    /\ AfterDispatch
    /\ hasEvaluateAndRunCall
    /\ ~IsSuccess(variant, finalResult)
    /\ ShouldBreakOnStagnation(variant, attemptCounter, previousSuccessRates)
    /\ pc' = "done"
    /\ returned' = ReturnValue(finalResult)
    /\ pushed' = << >>
    /\ UNCHANGED << config, convertArgs, conversion, writtenSinceRun, toolsOffered, fnArgs, fnResult, response, toolResults, jestRun, toolCallsReceived, attemptCounter, attemptsRemaining, previousSuccessRates,
                    functionCallCounts, usedFunctions, finalResult,
                    toolCallsLen, idx, toolCall, hasEvaluateAndRunCall, calls,
                    onlySubmitTurns >>

AskToTryAgain ==
    /\ AfterDispatch
    /\ hasEvaluateAndRunCall
    /\ ~IsSuccess(variant, finalResult)
    /\ ~ShouldBreakOnStagnation(variant, attemptCounter, previousSuccessRates)
    /\ pushed' = GuidanceMessages(variant, attemptCounter, attemptsRemaining,
                                  usedFunctions, disableUpdateComponent)
    /\ LoopOrReturn
    /\ UNCHANGED << config, convertArgs, conversion, writtenSinceRun, toolsOffered, fnArgs, fnResult, response, toolResults, jestRun, toolCallsReceived, attemptCounter, attemptsRemaining, previousSuccessRates,
                    functionCallCounts, usedFunctions, finalResult,
                    toolCallsLen, idx, toolCall, hasEvaluateAndRunCall, calls,
                    onlySubmitTurns >>

\* tool calls but no evaluateAndRun (continue), or no tool calls at all
ContinueWithoutSubmit ==
    /\ AfterDispatch
    /\ ~hasEvaluateAndRunCall
    /\ pushed' = << >>
    /\ LoopOrReturn
    /\ UNCHANGED << config, convertArgs, conversion, writtenSinceRun, toolsOffered, fnArgs, fnResult, response, toolResults, jestRun, toolCallsReceived, attemptCounter, attemptsRemaining, previousSuccessRates,
                    functionCallCounts, usedFunctions, finalResult,
                    toolCallsLen, idx, toolCall, hasEvaluateAndRunCall, calls,
                    onlySubmitTurns >>

Next ==
    \/ LLMCallThrows
    \/ LLMRespondsTextOnly
    \/ LLMRespondsNothing
    \/ LLMRespondsToolCalls
    \/ HandleRequestForFile
    \/ HandleRequestForReferenceTests
    \/ HandleUpdateComponent
    \/ HandleEvaluateAndRunUnparsed
    \/ HandleEvaluateAndRunNoFile
    \/ HandleEvaluateAndRun
    \/ HandleOtherName
    \/ TerminateOnSuccess
    \/ TerminateOnStagnation
    \/ AskToTryAgain
    \/ ContinueWithoutSubmit

Spec == Init /\ [][Next]_vars

\* ------------------------------------- runTestAndAnalyze on its own inputs
\* the count lines "Tests: [f failed, ][p passed, ]t total" with numbers up to
\* MaxTests whose success rate is an integer (-1: the group is absent)
CountLines ==
    { c \in { CountLine(f, p, t) : f \in -1..MaxTests, p \in -1..MaxTests,
                                   t \in 0..MaxTests } :
        c.passed > 0 /\ c.total > 0 => (c.passed * 100) % c.total = 0 }

\* every jest output: the empty string, or text with any of the markers and
\* with or without a count line
AllJestLogs ==
    { JestLog(TRUE, {}, NoCount) }
        \cup { JestLog(FALSE, m, c) : m \in SUBSET Markers, c \in CountLines \cup {NoCount} }

AllRunnerOutcomes ==
    { [threw |-> TRUE, log |-> JestLog(TRUE, {}, NoCount)] }
        \cup { [threw |-> FALSE, log |-> l] : l \in AllJestLogs }

InitRunner ==
    /\ agent = "submitter"
    /\ toolCallsReceived = 0
    /\ variant = "unbudgeted"
    /\ disableUpdateComponent = FALSE
    /\ pc = "runTestAndAnalyze"
    /\ attemptCounter = 1
    /\ attemptsRemaining = MAX_ATTEMPTS - 1
    /\ previousSuccessRates = << >>
    /\ functionCallCounts = [n \in HelperNames |-> 0]
    /\ usedFunctions = [n \in HelperNames |-> FALSE]
    /\ finalResult = NullResult
    /\ pushed = << >>
    /\ toolCallsLen = 0
    /\ idx = 1
    /\ toolCall = NoToolCall
    /\ hasEvaluateAndRunCall = FALSE
    /\ calls = NoCalls
    /\ onlySubmitTurns = TRUE
    /\ response = "none"
    /\ toolResults = << >>
    /\ jestRun = NoRun
    /\ writtenSinceRun = FALSE
    /\ NotConverting
    /\ toolsOffered = {}
    /\ fnArgs = NoCall
    /\ fnResult = NoCall
    /\ returned = NullResult

\* one call of runTestAndAnalyze: the jest command and the type-check command
\* do what they do, the result is in finalResult
AnalyzeRun ==
    /\ pc = "runTestAndAnalyze"
    /\ \E run \in AllRunnerOutcomes : \E tc \in TypeCheckOutcomes :
          /\ jestRun' = run
          /\ finalResult' = runTestAndAnalyze(run, tc)
    /\ pc' = "analysed"
    /\ UNCHANGED << config, convertArgs, conversion, writtenSinceRun, toolsOffered, fnArgs, fnResult, toolCallsReceived, attemptCounter, attemptsRemaining,
                    previousSuccessRates, functionCallCounts, usedFunctions, pushed,
                    toolCallsLen, idx, toolCall, hasEvaluateAndRunCall, calls,
                    onlySubmitTurns, response, toolResults, returned >>

NextRunner == AnalyzeRun

SpecRunner == InitRunner /\ [][NextRunner]_vars

\* ----------------------------------------- getComponentContent on its own
\* every variable of the orchestrator at rest, while a helper is called alone
Idle ==
    /\ agent = "submitter"
    /\ toolCallsReceived = 0
    /\ variant = "unbudgeted"
    /\ disableUpdateComponent = FALSE
    /\ attemptCounter = 1
    /\ attemptsRemaining = MAX_ATTEMPTS - 1
    /\ previousSuccessRates = << >>
    /\ functionCallCounts = [n \in HelperNames |-> 0]
    /\ usedFunctions = [n \in HelperNames |-> FALSE]
    /\ finalResult = NullResult
    /\ pushed = << >>
    /\ toolCallsLen = 0
    /\ idx = 1
    /\ toolCall = NoToolCall
    /\ hasEvaluateAndRunCall = FALSE
    /\ calls = NoCalls
    /\ onlySubmitTurns = TRUE
    /\ response = "none"
    /\ toolResults = << >>
    /\ jestRun = NoRun
    /\ writtenSinceRun = FALSE
    /\ toolsOffered = {}
    /\ returned = NullResult

IdleVars ==
    << config, toolCallsReceived, attemptCounter, attemptsRemaining, previousSuccessRates,
       functionCallCounts, usedFunctions, finalResult, pushed, toolCallsLen, idx,
       toolCall, hasEvaluateAndRunCall, calls, onlySubmitTurns, response,
       toolResults, jestRun, writtenSinceRun, toolsOffered, returned >>

\* the extensions tried, in the order of the array
ExtensionsTsFirst == << ".ts", ".tsx", ".js", ".jsx" >>

Extensions == << ".js", ".jsx", ".ts", ".tsx" >>

ExtensionSet == { Extensions[i] : i \in 1..Len(Extensions) }

\* What is on disk around absolutePath. atPath: nothing, a file that reads, a
\* directory, or a file whose read throws ("unreadable"); index[e] is
\* <absolutePath>/index<e> and withExt[e] is <absolutePath><e>.
EntryKinds == {"absent", "file", "unreadable"}

FileSystems ==
    { fs \in [atPath : {"absent", "file", "directory", "unreadable"},
              index : [ExtensionSet -> EntryKinds],
              withExt : [ExtensionSet -> EntryKinds]] :
        fs.atPath # "directory" => \A e \in ExtensionSet : fs.index[e] = "absent" }

\* the value null, and the content of the file read, named by where it is
NoContent == [isNull |-> TRUE, threw |-> FALSE, from |-> "none", ext |-> ""]

Content(from, ext) == [isNull |-> FALSE, threw |-> FALSE, from |-> from, ext |-> ext]

\* fs.readFileSync inside the try: the content, or the catch's null
readFileSync(kind, from, ext) ==
    IF kind = "unreadable" THEN NoContent ELSE Content(from, ext)

\* the for loop over extensions: the first one whose file exists is read
FirstExisting(files, from) ==
    LET found == { i \in 1..Len(Extensions) : files[Extensions[i]] # "absent" }
    IN  IF found = {} THEN NoContent
        ELSE LET i == CHOOSE j \in found : \A k \in found : j <= k
             IN  readFileSync(files[Extensions[i]], from, Extensions[i])

getComponentContent(fs) ==
    IF fs.atPath # "absent"
    THEN IF fs.atPath # "directory"
         THEN readFileSync(fs.atPath, "exact", "")
         ELSE FirstExisting(fs.index, "index")
    ELSE FirstExisting(fs.withExt, "withExt")

InitComponent ==
    /\ Idle
    /\ NotConverting
    /\ pc = "getComponentContent"
    /\ fnArgs = NoCall
    /\ fnResult = NoCall

\* one call of getComponentContent on some file system
ReadComponent ==
    /\ pc = "getComponentContent"
    /\ \E fs \in FileSystems :
          /\ fnArgs' = fs
          /\ fnResult' = getComponentContent(fs)
    /\ pc' = "read"
    /\ UNCHANGED << IdleVars, convertArgs, conversion >>

NextComponent == ReadComponent

SpecComponent == InitComponent /\ [][NextComponent]_vars

\* --------------------------------------- findRtlReferenceTests on its own
\* The files around the test being converted. "T" is that test, "A" and "B"
\* are the other test files of its directory, "C" and "D" those of the parent
\* directory. A file is absent, matches a search pattern ("rtl"), matches
\* none ("plain"), or cannot be read ("unreadable").
FileKinds == {"absent", "rtl", "plain", "unreadable"}

\* how testPath spells the path of "T": as path.join gives it back
\* ("joined"), another way ("./src/T.test.tsx", "/repo/src/../src/T.test.tsx"),
\* or not as a string at all, so that path.dirname throws ("notAString")
Spellings == {"joined", "other", "notAString"}

\* the directory whose fs.readdirSync throws, if any
ReaddirFailures == {"none", "testDir", "parentDir"}

SearchArgs ==
    [kind : [{"A", "B", "C", "D"} -> FileKinds],
     own : {"rtl", "plain"},
     testPath : Spellings,
     searchDepth : 1..MaxSearchDepth,
     readdirThrows : ReaddirFailures,
     subdirFirst : BOOLEAN]

KindOf(a, f) == IF f = "T" THEN a.own ELSE a.kind[f]

\* the files of a sequence that exist, in order
Existing(a, fs) == SelectSeq(fs, LAMBDA f : KindOf(a, f) # "absent")

\* findTestFiles: the test files below dir, or those found before the catch
findTestFiles(a, dir) ==
    IF a.readdirThrows = dir THEN << >>
    ELSE IF dir = "testDir" THEN Existing(a, << "A", "T", "B" >>)
    ELSE LET sub == IF a.readdirThrows = "testDir" THEN << >>
                    ELSE Existing(a, << "A", "T", "B" >>)
             own == Existing(a, << "C", "D" >>)
         IN  IF a.subdirFirst THEN sub \o own ELSE own \o sub

\* the readdir errors findTestFiles(dir) catches, the recursion into the
\* test's directory included
ReaddirErrors(a, dir) ==
    IF a.readdirThrows = "testDir" \/ a.readdirThrows = dir THEN 1 ELSE 0

\* testFiles.filter(file => file !== testPath)
FilterOutTestPath(a, files) ==
    IF a.testPath = "joined" THEN SelectSeq(files, LAMBDA f : f # "T") ELSE files

\* the for loop over filteredTestFiles from place i on: results and the
\* number of read errors caught so far
RECURSIVE CheckFiles(_, _, _, _)
CheckFiles(a, files, i, acc) ==
    IF i > Len(files) THEN acc
    ELSE LET k == KindOf(a, files[i])
         IN  IF k = "unreadable"
             THEN CheckFiles(a, files, i + 1, [acc EXCEPT !.errors = @ + 1])
             ELSE IF k = "rtl"
             THEN LET pushed1 == [acc EXCEPT !.list = Append(@, files[i])]
                  IN  IF Len(pushed1.list) >= ReferenceTestLimit
                      THEN pushed1
                      ELSE CheckFiles(a, files, i + 1, pushed1)
             ELSE CheckFiles(a, files, i + 1, acc)

\* the for loop over searchDirs
RECURSIVE SearchDirs(_, _, _, _)
SearchDirs(a, dirs, d, acc) ==
    IF d > Len(dirs) THEN acc
    ELSE LET listed == [acc EXCEPT !.errors = @ + ReaddirErrors(a, dirs[d])]
             after == CheckFiles(a, FilterOutTestPath(a, findTestFiles(a, dirs[d])), 1, listed)
         IN  IF Len(after.list) >= ReferenceTestLimit
             THEN after
             ELSE SearchDirs(a, dirs, d + 1, after)

findRtlReferenceTests(a) ==
    IF a.testPath = "notAString"
    THEN [threw |-> FALSE, list |-> << >>, errors |-> 1]
    ELSE LET up == << "testDir", "parentDir" >>
             \* the parent directory is the filesystem root, where the walk ends
             dirs == SubSeq(up, 1, IF a.searchDepth < Len(up) THEN a.searchDepth ELSE Len(up))
         IN  SearchDirs(a, dirs, 1, [threw |-> FALSE, list |-> << >>, errors |-> 0])

InitReferenceTests ==
    /\ Idle
    /\ NotConverting
    /\ pc = "findRtlReferenceTests"
    /\ fnArgs = NoCall
    /\ fnResult = NoCall

\* one call of findRtlReferenceTests
SearchReferenceTests ==
    /\ pc = "findRtlReferenceTests"
    /\ \E a \in SearchArgs :
          /\ fnArgs' = a
          /\ fnResult' = findRtlReferenceTests(a)
    /\ pc' = "searched"
    /\ UNCHANGED << IdleVars, convertArgs, conversion >>

NextReferenceTests == SearchReferenceTests

SpecReferenceTests == InitReferenceTests /\ [][NextReferenceTests]_vars

\* ------------------------------------------- the path conversions on their own
\* A path string is modelled by its split at '/': "./a/b" is << ".", "a", "b" >>,
\* "../a" is << "..", "a" >>, "./" is << ".", "" >>, "" is << >>. An absolute
\* path is the sequence of its names below the root.
\* The file and directory names: two plain names of which one begins with
\* the other, a name beginning with a dot, a name holding a backslash.
Names == {"a", "ab", ".c", "d\\e"}

\* s.startsWith(t) for two names
NameStartsWith(s, t) == s = t \/ (s = "ab" /\ t = "a")

RECURSIVE SeqsUpTo(_, _)
SeqsUpTo(S, n) ==
    IF n = 0 THEN { << >> }
    ELSE LET shorter == SeqsUpTo(S, n - 1)
         IN  shorter \cup { Append(s, x) : s \in { t \in shorter : Len(t) = n - 1 }, x \in S }

\* n times ".."
RECURSIVE Ups(_)
Ups(n) == IF n = 0 THEN << >> ELSE << ".." >> \o Ups(n - 1)

\* the normalized references that start with './' or '../'
RelativeRefs ==
    { IF u = 0 THEN << "." >> \o (IF d = << >> THEN << "" >> ELSE d)
      ELSE Ups(u) \o (IF d = << >> THEN << "" >> ELSE d) :
        u \in 0..MaxUps, d \in SeqsUpTo(Names, MaxDown) }

\* the number of leading ".." of a reference
RECURSIVE UpCount(_)
UpCount(ref) ==
    IF ref # << >> /\ Head(ref) = ".." THEN 1 + UpCount(Tail(ref)) ELSE 0

\* the origin files: a directory of depth up to MaxDepth and the file "t"
OriginFiles == { Append(d, "t") : d \in SeqsUpTo(Names, MaxDepth) }

\* the values of process.cwd()
RootFolders == SeqsUpTo(Names, 1)

\* the absolute targets
AbsoluteTargets == SeqsUpTo(Names, MaxDepth + 1)

\* path.dirname of an absolute path
dirname(p) == IF p = << >> THEN << >> ELSE SubSeq(p, 1, Len(p) - 1)

\* path.resolve(dir, rel) for an absolute dir
RECURSIVE resolve(_, _)
resolve(dir, rel) ==
    IF rel = << >> THEN dir
    ELSE LET tok == Head(rel)
         IN  IF tok = "." \/ tok = "" THEN resolve(dir, Tail(rel))
             ELSE IF tok = ".." THEN resolve(dirname(dir), Tail(rel))
             ELSE resolve(Append(dir, tok), Tail(rel))

\* the length of the longest common prefix of two absolute paths
RECURSIVE CommonLen(_, _)
CommonLen(p, q) ==
    IF p # << >> /\ q # << >> /\ Head(p) = Head(q)
    THEN 1 + CommonLen(Tail(p), Tail(q))
    ELSE 0

\* path.relative(from, to)
relative(from, to) ==
    LET k == CommonLen(from, to)
    IN  Ups(Len(from) - k) \o SubSeq(to, k + 1, Len(to))

\* s.startsWith('.')
StartsWithDot(s) == s # << >> /\ Head(s) \in {".", "..", ".c"}

\* s.replace(/\\/g, '/')
RECURSIVE ReplaceBackslashes(_)
ReplaceBackslashes(s) ==
    IF s = << >> THEN << >>
    ELSE (IF Head(s) = "d\\e" THEN << "d", "e" >> ELSE << Head(s) >>)
            \o ReplaceBackslashes(Tail(s))

getRelativePathFromAbsolutePath(relativeToPath, absolutePath) ==
    LET relativePath == relative(dirname(relativeToPath), absolutePath)
    IN  ReplaceBackslashes(IF ~StartsWithDot(relativePath) /\ relativePath # << >>
                           THEN << "." >> \o relativePath
                           ELSE relativePath)

\* resolvedPath.startsWith(rootFolder), both absolute paths as strings
PathStartsWith(p, root) ==
    \/ root = << >>
    \/ /\ Len(p) >= Len(root)
       /\ SubSeq(p, 1, Len(root) - 1) = SubSeq(root, 1, Len(root) - 1)
       /\ NameStartsWith(p[Len(root)], root[Len(root)])

getAbsolutePathFromRelativePath(relativePath, filePath, rootFolder) ==
    LET resolvedPath == resolve(dirname(filePath), relativePath)
    IN  IF PathStartsWith(resolvedPath, rootFolder)
        THEN resolvedPath
        ELSE rootFolder \o resolvedPath

getFileFromRelativeImports(relativePath, sourceFilePath) ==
    resolve(dirname(sourceFilePath), relativePath)

InitPaths ==
    /\ Idle
    /\ NotConverting
    /\ pc = "paths"
    /\ fnArgs = NoCall
    /\ fnResult = NoCall

\* a reference is made absolute, by either function, and relative again
RoundTrip ==
    /\ pc = "paths"
    /\ \E origin \in OriginFiles, ref \in RelativeRefs, rootFolder \in RootFolders :
          /\ UpCount(ref) <= Len(dirname(origin))
          /\ fnArgs' = [origin |-> origin, ref |-> ref, rootFolder |-> rootFolder]
          /\ LET abs == getAbsolutePathFromRelativePath(ref, origin, rootFolder)
                 file == getFileFromRelativeImports(ref, origin)
             IN  fnResult' = [absolute |-> abs,
                              back |-> getRelativePathFromAbsolutePath(origin, abs),
                              file |-> file,
                              backFromFile |-> getRelativePathFromAbsolutePath(origin, file)]
    /\ pc' = "roundTrip"
    /\ UNCHANGED << IdleVars, convertArgs, conversion >>

\* getRelativePathFromAbsolutePath for an origin and a target
MakeRelative ==
    /\ pc = "paths"
    /\ \E origin \in OriginFiles, target \in AbsoluteTargets :
          /\ fnArgs' = [origin |-> origin, target |-> target]
          /\ fnResult' = getRelativePathFromAbsolutePath(origin, target)
    /\ pc' = "relative"
    /\ UNCHANGED << IdleVars, convertArgs, conversion >>

NextPaths == RoundTrip \/ MakeRelative

SpecPaths == InitPaths /\ [][NextPaths]_vars

\* ------------------------------------------------------------ updateComponentContent
\* component-helper.ts, updateComponentContent(absolutePath, newContent).
\* The disk around absolutePath: disk[""] is absolutePath itself and disk[e]
\* is <absolutePath><e>. An entry is absent, a directory, or a file holding
\* its old content; a written file holds "new" (the processed content).
extensions == << ".js", ".jsx", ".ts", ".tsx" >>

UpdatePaths == {""} \cup { extensions[i] : i \in 1..Len(extensions) }

Disks == [UpdatePaths -> {"absent", "directory", "old"}]

\* fs.existsSync
existsSync(disk, p) == disk[p] # "absent"

\* the path the checks and the write go to: absolutePath when it exists, else
\* the first <absolutePath><ext> that exists, else none
UpdateTarget(disk) ==
    IF existsSync(disk, "")
    THEN ""
    ELSE LET found == { i \in 1..Len(extensions) : existsSync(disk, extensions[i]) }
         IN  IF found = {}
             THEN "none"
             ELSE extensions[CHOOSE i \in found : \A j \in found : i <= j]

\* what the call answers, the path it went to, and the disk after it
UpdateResult(success, message, target, disk) ==
    [success |-> success, message |-> message, target |-> target, disk |-> disk]

\* a variant that writes <absolutePath> when nothing was found
updateComponentContentCreating(disk, writable) ==
    LET target == UpdateTarget(disk)
    IN  IF target = "none"
        THEN UpdateResult(TRUE, "updated", "", [disk EXCEPT ![""] = "new"])
        ELSE IF disk[target] = "directory"
             THEN UpdateResult(FALSE, "directory", target, disk)
             ELSE IF writable
                  THEN UpdateResult(TRUE, "updated", target, [disk EXCEPT ![target] = "new"])
                  ELSE UpdateResult(FALSE, "error", target, disk)

\* writable: fs.writeFileSync writes the file; otherwise it throws before the
\* file is changed (it cannot be opened for writing) and the catch answers
updateComponentContent(disk, writable) ==
    LET target == UpdateTarget(disk)
    IN  IF target = "none"
        THEN UpdateResult(FALSE, "notFound", "none", disk)
        ELSE IF disk[target] = "directory"
             THEN UpdateResult(FALSE, "directory", target, disk)
             ELSE IF writable
                  THEN UpdateResult(TRUE, "updated", target, [disk EXCEPT ![target] = "new"])
                  ELSE UpdateResult(FALSE, "error", target, disk)

InitUpdate ==
    /\ Idle
    /\ NotConverting
    /\ pc = "updateComponentContent"
    /\ fnArgs = NoCall
    /\ fnResult = NoCall

UpdateComponent ==
    /\ pc = "updateComponentContent"
    /\ \E disk \in Disks, writable \in BOOLEAN :
          /\ fnArgs' = [disk |-> disk, writable |-> writable]
          /\ fnResult' = updateComponentContent(disk, writable)
    /\ pc' = "updated"
    /\ UNCHANGED << IdleVars, convertArgs, conversion >>

NextUpdate == UpdateComponent

SpecUpdate == InitUpdate /\ [][NextUpdate]_vars

\* ------------------------------------------------------------ convertTestFiles, the workflow
InitConvert ==
    /\ Idle
    /\ fnArgs = NoCall
    /\ fnResult = NoCall
    /\ pc = "loop"
    /\ ConversionStart
    /\ filePaths \in FileLists
    /\ skipFiles \in SUBSET ConvertPaths
    /\ onlyConvertFullyPassingTests \in BOOLEAN

\* the head of the loop body: a skipped file, a file whose config cannot be
\* initialised, or the call of getReactCompDom
NextFile ==
    /\ pc = "loop"
    /\ fileIndex <= Len(filePaths)
    /\ IF filePaths[fileIndex] \in skipFiles
       THEN /\ fileIndex' = fileIndex + 1
            /\ UNCHANGED << pc, initialized >>
       ELSE \E initThrows \in BOOLEAN :
               IF initThrows
               THEN /\ fileIndex' = fileIndex + 1
                    /\ UNCHANGED << pc, initialized >>
               ELSE /\ initialized' = initialized \cup {filePaths[fileIndex]}
                    /\ pc' = "getReactCompDom"
                    /\ UNCHANGED fileIndex
    /\ UNCHANGED << IdleVars, fnArgs, fnResult, filePaths, skipFiles, onlyConvertFullyPassingTests,
                    transformationResult, totalResults, originals, testRuns, cleanedUp,
                    generatedSummary >>

\* getReactCompDom has resolved: the prompt is built and
\* attemptAndValidateTransformation is called
GenerateInitialPrompt ==
    /\ pc = "getReactCompDom"
    /\ pc' = "attemptAndValidateTransformation"
    /\ UNCHANGED << IdleVars, fnArgs, fnResult, filePaths, skipFiles, onlyConvertFullyPassingTests,
                    fileIndex, initialized, transformationResult, totalResults, originals,
                    testRuns, cleanedUp, generatedSummary >>

\* attemptAndValidateTransformation has resolved; a null result is recorded
\* and the loop continues
Transformed ==
    /\ pc = "attemptAndValidateTransformation"
    /\ \E r \in TransformationResults :
          /\ transformationResult' = r
          /\ IF r.isNull
             THEN /\ totalResults' = OnNullResult(totalResults, filePaths[fileIndex])
                  /\ fileIndex' = fileIndex + 1
                  /\ pc' = "loop"
             ELSE /\ pc' = "updateOriginal"
                  /\ UNCHANGED << totalResults, fileIndex >>
    /\ UNCHANGED << IdleVars, fnArgs, fnResult, filePaths, skipFiles, onlyConvertFullyPassingTests,
                    initialized, originals, testRuns, cleanedUp, generatedSummary >>

\* the call of updateOriginalFileAndRunTests, which is not awaited: it runs
\* to its await of runCommand and the test run goes on behind the caller
UpdateOriginal ==
    /\ pc = "updateOriginal"
    /\ IF ShouldUpdateOriginal(onlyConvertFullyPassingTests, transformationResult)
       THEN \E rtlFileExists \in BOOLEAN :
               IF rtlFileExists
               THEN /\ originals' = [originals EXCEPT ![filePaths[fileIndex]] = "rtl"]
                    /\ testRuns' = [testRuns EXCEPT ![filePaths[fileIndex]] = "running"]
               ELSE UNCHANGED << originals, testRuns >>
       ELSE UNCHANGED << originals, testRuns >>
    /\ pc' = "cleanupSnapshots"
    /\ UNCHANGED << IdleVars, fnArgs, fnResult, filePaths, skipFiles, onlyConvertFullyPassingTests,
                    fileIndex, initialized, transformationResult, totalResults, cleanedUp,
                    generatedSummary >>

CleanupSnapshots ==
    /\ pc = "cleanupSnapshots"
    /\ cleanedUp' = cleanedUp \cup {filePaths[fileIndex]}
    /\ pc' = "store"
    /\ UNCHANGED << IdleVars, fnArgs, fnResult, filePaths, skipFiles, onlyConvertFullyPassingTests,
                    fileIndex, initialized, transformationResult, totalResults, originals,
                    testRuns, generatedSummary >>

StoreTransformationResult ==
    /\ pc = "store"
    /\ totalResults' = StoreResult(totalResults, filePathClean(filePaths[fileIndex]), transformationResult)
    /\ fileIndex' = fileIndex + 1
    /\ pc' = "loop"
    /\ UNCHANGED << IdleVars, fnArgs, fnResult, filePaths, skipFiles, onlyConvertFullyPassingTests,
                    initialized, transformationResult, originals, testRuns, cleanedUp,
                    generatedSummary >>

\* after the loop: the summary is generated and written to
\* config.jsonSummaryPath, which is undefined when no config was initialised
WriteSummary ==
    /\ pc = "loop"
    /\ fileIndex > Len(filePaths)
    /\ generatedSummary' = generateSummaryJson(totalResults)
    /\ pc' = IF initialized # {} THEN "returned" ELSE "threw"
    /\ UNCHANGED << IdleVars, fnArgs, fnResult, filePaths, skipFiles, onlyConvertFullyPassingTests,
                    fileIndex, initialized, transformationResult, totalResults, originals,
                    testRuns, cleanedUp >>

\* the await of runCommand in updateOriginalFileAndRunTests resumes, which it
\* can only while convertTestFiles is itself waiting or has finished
TestRunCompletes ==
    /\ pc \in {"getReactCompDom", "attemptAndValidateTransformation", "returned", "threw"}
    /\ \E f \in ConvertPaths :
          /\ testRuns[f] = "running"
          /\ testRuns' = [testRuns EXCEPT ![f] = "complete"]
    /\ UNCHANGED << IdleVars, fnArgs, fnResult, pc, filePaths, skipFiles, onlyConvertFullyPassingTests,
                    fileIndex, initialized, transformationResult, totalResults, originals,
                    cleanedUp, generatedSummary >>

NextConvert ==
    \/ NextFile
    \/ GenerateInitialPrompt
    \/ Transformed
    \/ UpdateOriginal
    \/ CleanupSnapshots
    \/ StoreTransformationResult
    \/ WriteSummary
    \/ TestRunCompletes

SpecConvert == InitConvert /\ [][NextConvert]_vars

\* ------------------------------------------------------------ properties
\* what a claim calls a passing submit result
Passing(r) ==
    ~r.isNull /\ r.testPass /\ (variant = "budgeted" => r.typeCheckPass)

\* the last three recorded success rates exist and are equal
ThreeIdenticalRates ==
    LET n == Len(previousSuccessRates)
    IN  /\ n >= 3
        /\ previousSuccessRates[n] = previousSuccessRates[n - 1]
        /\ previousSuccessRates[n - 1] = previousSuccessRates[n - 2]

\* no three consecutive recorded success rates are equal
NoThreeIdenticalRates ==
    \A i \in 3..Len(previousSuccessRates) :
        ~(/\ previousSuccessRates[i] = previousSuccessRates[i - 1]
          /\ previousSuccessRates[i - 1] = previousSuccessRates[i - 2])

\* C1: once the N-th submit (N <= MAX_ATTEMPTS) has reported a pass, that
\* result stays the run's result: no validation run and no LLM call follows,
\* and the value returned is exactly that result.
C1_PassEndsRun ==
    [][(Passing(finalResult) /\ Len(previousSuccessRates) <= MAX_ATTEMPTS)
         => /\ finalResult' = finalResult
            /\ calls'.runTestAndAnalyze = calls.runTestAndAnalyze
            /\ calls'.llmCallFunction = calls.llmCallFunction
            /\ (pc' = "done" => returned' = finalResult)]_vars

\* C2 as stated: as soon as three consecutive submits have recorded identical
\* success rates, no further submit is validated, no further LLM call is made,
\* and the run returns the last result.
C2_ThreeIdenticalStop ==
    [][(ThreeIdenticalRates /\ pc # "threw")
         => /\ previousSuccessRates' = previousSuccessRates
            /\ calls'.llmCallFunction = calls.llmCallFunction
            /\ (pc' = "done" => returned' = finalResult)]_vars

\* C2 as the code has it: at the end of an agent turn that held an
\* evaluateAndRun call and did not pass, when more than 3 submits (unbudgeted)
\* or more than 4 submits (budgeted) are counted by attemptCounter and the last
\* three recorded rates are identical, the run ends in that step, without a
\* further LLM call, and returns the last recorded result.
C2_StagnationStopsAtTurnEnd ==
    [][(/\ pc = "afterDispatch"
        /\ hasEvaluateAndRunCall
        /\ ThreeIdenticalRates
        /\ \/ variant = "unbudgeted" /\ attemptCounter > 3
           \/ variant = "budgeted" /\ attemptCounter > 4)
         => /\ pc' = "done"
            /\ returned' = finalResult
            /\ calls' = calls
            /\ previousSuccessRates' = previousSuccessRates]_vars

\* a budgeted run that the stagnation rule ended after its 4th submit, with
\* attempts left
C2_Witness ==
    /\ pc = "done"
    /\ variant = "budgeted"
    /\ toolCall.name = "evaluateAndRun"
    /\ ~Passing(returned)
    /\ attemptCounter = 5
    /\ Len(previousSuccessRates) = 4
    /\ ThreeIdenticalRates
    /\ returned = finalResult

\* C3: a run in which every agent turn was one well-formed evaluateAndRun call,
\* no submit passed and no three consecutive rates were equal makes exactly
\* MAX_ATTEMPTS LLM calls and returns the result of the 5th submit.
C3_ExactlyMaxAttempts ==
    (/\ pc = "done"
     /\ onlySubmitTurns
     /\ ~Passing(returned)
     /\ NoThreeIdenticalRates)
        => /\ calls.llmCallFunction = MAX_ATTEMPTS
           /\ calls.runTestAndAnalyze = MAX_ATTEMPTS
           /\ Len(previousSuccessRates) = MAX_ATTEMPTS
           /\ returned = finalResult
           /\ returned.successRate = previousSuccessRates[MAX_ATTEMPTS]

C3_Witness ==
    /\ pc = "done"
    /\ onlySubmitTurns
    /\ ~Passing(returned)
    /\ NoThreeIdenticalRates
    /\ calls.llmCallFunction = 5
    /\ ~returned.isNull

\* C4: the number of validation runs never exceeds MAX_ATTEMPTS, and a run
\* that has ended returns the last recorded result.
C4_AttemptCeiling ==
    /\ calls.runTestAndAnalyze <= MAX_ATTEMPTS
    /\ (pc = "done" => returned = finalResult)

\* C5: after an evaluateAndRun call whose arguments do not parse, no LLM call
\* is made and the run returns no result.
C5_UnparsedSubmitEndsRun ==
    [][(toolCall.name = "evaluateAndRun" /\ toolCall.args = "badjson")
         => /\ calls'.llmCallFunction = calls.llmCallFunction
            /\ (pc' = "done" => returned'.isNull)]_vars

\* C6 as stated: when llmCallFunction throws the run returns no result.
C6_LLMThrowReturnsNull ==
    [][(pc = "callLLM" /\ pc' = "done") => returned'.isNull]_vars

\* C6 as the code has it: when llmCallFunction throws the run ends in that
\* step, nothing is dispatched or pushed, and the value returned is the last
\* recorded result, which is null exactly when no validation has completed.
C6_LLMThrowReturnsLastResult ==
    [][(pc = "callLLM" /\ pc' = "done")
         => /\ returned' = finalResult
            /\ (returned'.isNull <=> calls.runTestAndAnalyze = 0)
            /\ calls' = [calls EXCEPT !.llmCallFunction = @ + 1]
            /\ pushed' = << >>
            /\ finalResult' = finalResult]_vars

\* a run ended by a throwing LLM call that returns an earlier submit's result
C6_Witness ==
    /\ pc = "done"
    /\ toolCall = NoToolCall
    /\ pushed = << >>
    /\ ~returned.isNull
    /\ calls.llmCallFunction = calls.runTestAndAnalyze + 1

\* C7: no exception raised while a tool call is handled leaves the
\* orchestrator.
C7_NoHandlerExceptionEscapes ==
    ~(pc = "threw" /\ toolCall # NoToolCall)

\* the limits as C8 and C9 state them
StatedLimit(n) == IF n = "requestForFile" THEN 3 ELSE 1

\* C8: in the budgeted orchestrator a helper invoked while its count equals
\* its limit is answered with the limit refusal under the call's id, no
\* collaborator is invoked and the count stays as it was.
C8_RefusedAtLimit ==
    [][\A n \in HelperNames :
         (/\ variant = "budgeted"
          /\ pc = "dispatch"
          /\ toolCall'.name = n
          /\ functionCallCounts[n] = StatedLimit(n))
            => /\ pushed' = << Msg("tool", toolCall'.id, n, "limitReached", {}, -1) >>
               /\ calls' = calls
               /\ functionCallCounts' = functionCallCounts]_vars

\* a 4th requestForFile call has just been refused
C8_Witness ==
    /\ variant = "budgeted"
    /\ toolCall.name = "requestForFile"
    /\ pushed = << ToolMsg(toolCall, "limitReached") >>
    /\ functionCallCounts["requestForFile"] = 3
    /\ calls.getComponentContent <= 3

\* the tool results that refuse a helper call
Refusals == {"limitReached", "disabled"}

\* C9: every count stays between 0 and its limit, and a step leaves a count
\* alone or, when it handles an invocation of that helper without refusing
\* it, adds exactly 1; no count is ever lowered.
C9_CountsBoundedMonotone ==
    [][\A n \in HelperNames :
         /\ functionCallCounts[n] \in 0..StatedLimit(n)
         /\ functionCallCounts'[n] \in 0..StatedLimit(n)
         /\ IF /\ variant = "budgeted"
               /\ pc = "dispatch"
               /\ toolCall'.name = n
               /\ pushed' # << >>
               /\ pushed'[1].kind \notin Refusals
            THEN functionCallCounts'[n] = functionCallCounts[n] + 1
            ELSE functionCallCounts'[n] = functionCallCounts[n]]_vars

\* two budgets are used up in one run
C9_Witness ==
    /\ functionCallCounts["requestForFile"] = 3
    /\ functionCallCounts["requestForReferenceTests"] = 1
    /\ pushed # << >>
    /\ pushed[1].kind \notin Refusals

\* C10: with disableUpdateComponent set, every updateComponent call is
\* answered with the 'disabled' refusal under its id and
\* updateComponentContent is never invoked.
C10_DisabledNeverUpdates ==
    [][disableUpdateComponent
         => /\ calls'.updateComponentContent = 0
            /\ (pc = "dispatch" /\ toolCall'.name = "updateComponent")
                 => /\ pushed' = << Msg("tool", toolCall'.id, "updateComponent",
                                        "disabled", {}, -1) >>
                    /\ functionCallCounts' = functionCallCounts]_vars

\* a second updateComponent call of a turn has been answered 'disabled'
C10_Witness ==
    /\ disableUpdateComponent
    /\ toolCall.name = "updateComponent"
    /\ toolCall.id = 2
    /\ toolCall.args = "valid"
    /\ pushed = << ToolMsg(toolCall, "disabled") >>
    /\ calls.updateComponentContent = 0

\* C11: a turn with free-form text and no tool calls appends the agent
\* message and then the corrective instruction, goes back to the LLM call, and
\* leaves attemptCounter, the budget counters, the success-rate history and
\* the recorded result as they were; nothing but llmCallFunction is invoked.
C11_TextOnlyTurn ==
    [][(response' = "text" /\ calls'.llmCallFunction # calls.llmCallFunction)
         => /\ Len(pushed') = 2
            /\ pushed'[1].role = "assistant"
            /\ pushed'[2].role = "user"
            /\ pushed'[2].kind = "failedToCall"
            /\ pc' = "callLLM"
            /\ attemptCounter' = attemptCounter
            /\ functionCallCounts' = functionCallCounts
            /\ usedFunctions' = usedFunctions
            /\ previousSuccessRates' = previousSuccessRates
            /\ finalResult' = finalResult
            /\ calls' = [calls EXCEPT !.llmCallFunction = @ + 1]]_vars

\* a text-only turn after two submits
C11_Witness ==
    /\ response = "text"
    /\ pc = "callLLM"
    /\ Len(pushed) = 2
    /\ pushed[2].kind = "failedToCall"
    /\ attemptCounter = 3
    /\ Len(previousSuccessRates) = 2

\* C12: a step adds exactly 1 to attemptCounter when it dispatches an
\* evaluateAndRun call and leaves it alone otherwise; a helper call leaves the
\* success-rate history alone, and a turn without an evaluateAndRun call goes
\* straight back to the LLM call, with nothing appended.
C12_AttemptCounterCountsSubmits ==
    [][/\ attemptCounter' =
            attemptCounter
              + (IF pc = "dispatch" /\ toolCall'.name = "evaluateAndRun" THEN 1 ELSE 0)
       /\ (pc = "dispatch" /\ toolCall'.name # "evaluateAndRun")
            => /\ previousSuccessRates' = previousSuccessRates
               /\ hasEvaluateAndRunCall' = hasEvaluateAndRunCall
       /\ (pc = "afterDispatch" /\ ~hasEvaluateAndRunCall)
            => /\ pc' = "callLLM"
               /\ pushed' = << >>
               /\ previousSuccessRates' = previousSuccessRates
               /\ calls' = calls]_vars

\* after one submit, a turn of helper calls only has gone back to the LLM call
C12_Witness ==
    /\ pc = "callLLM"
    /\ response = "toolCalls"
    /\ toolCallsLen = 2
    /\ toolCall.name \in HelperNames
    /\ ~hasEvaluateAndRunCall
    /\ pushed = << >>
    /\ attemptCounter = 2
    /\ Len(previousSuccessRates) = 1

\* C13: when an agent turn holds several tool calls they are dispatched one
\* after the other in the order given, and when llmCallFunction is called
\* again every one of them has been dispatched and has its result appended.
C13_BatchFullyDispatched ==
    [][/\ (pc = "dispatch" /\ toolCallsLen >= 2) => toolCall'.id = toolCall.id + 1
       /\ (/\ calls'.llmCallFunction # calls.llmCallFunction
           /\ response = "toolCalls"
           /\ toolCallsLen >= 2)
            => /\ toolCall.id = toolCallsLen
               /\ toolResults = [i \in 1..toolCallsLen |-> i]]_vars

\* C14: every tool call that is dispatched, whatever its function name and
\* argument string, has exactly one tool message with its id appended by the
\* step that handles it.
C14_OneResultPerToolCall ==
    [][pc = "dispatch"
         => /\ Len(pushed') = 1
            /\ pushed'[1].role = "tool"
            /\ pushed'[1].id = toolCall'.id
            /\ toolResults' = Append(toolResults, toolCall'.id)]_vars

\* the second call of a turn is left undispatched and the LLM is called again
C13_SkippedCall ==
    /\ pc = "callLLM"
    /\ response = "toolCalls"
    /\ toolCallsLen = 2
    /\ toolCall = ToolCall(1, "evaluateAndRun", "badjson")
    /\ toolResults = << >>
    /\ Len(pushed) >= 1
    /\ pushed[1].role = "user"

\* a call with a function name no branch handles is left without a result
C14_UnansweredCall ==
    /\ pc = "callLLM"
    /\ response = "toolCalls"
    /\ toolCallsLen = 1
    /\ toolCall.name = "someOtherName"
    /\ toolResults = << >>

\* C15: the value a run returns is the result of its most recent completed
\* validation, and it is null exactly when the run completed no validation.
C15_ReturnsMostRecentResult ==
    pc = "done"
        => IF calls.runTestAndAnalyze = 0
           THEN returned.isNull
           ELSE /\ ~returned.isNull
                /\ \E tc \in TypeCheckOutcomes : returned = runTestAndAnalyze(jestRun, tc)
                /\ returned.successRate = previousSuccessRates[Len(previousSuccessRates)]

\* a run returns a result worse than an earlier one of the same run
C15_Witness ==
    /\ pc = "done"
    /\ Len(previousSuccessRates) >= 2
    /\ ~returned.isNull
    /\ jestRun.threw
    /\ returned.successRate = 0
    /\ \E i \in 1..(Len(previousSuccessRates) - 1) : previousSuccessRates[i] = 60

\* C16: a step that completes a validation appends that validation's success
\* rate to previousSuccessRates, after the entries already there; every other
\* step, a submit with unparseable arguments included, leaves the history as
\* it was.
C16_HistoryAppendOnly ==
    [][/\ IF calls'.runTestAndAnalyze = calls.runTestAndAnalyze + 1
          THEN previousSuccessRates' =
                   Append(previousSuccessRates, finalResult'.successRate)
          ELSE /\ previousSuccessRates' = previousSuccessRates
               /\ calls'.runTestAndAnalyze = calls.runTestAndAnalyze
       /\ Len(previousSuccessRates') = calls'.runTestAndAnalyze
       /\ (pc = "dispatch" /\ toolCall'.name = "evaluateAndRun" /\ toolCall'.args = "badjson")
            => previousSuccessRates' = previousSuccessRates]_vars

\* an unparseable submit after two validated ones with different rates
C16_Witness ==
    /\ toolCall.name = "evaluateAndRun"
    /\ toolCall.args = "badjson"
    /\ pc = "afterDispatch"
    /\ attemptCounter = 4
    /\ previousSuccessRates = << 60, 0 >>

\* C17: when the jest command throws, the validation still completes: the
\* result has testPass false and zero counts, its rate 0 is appended to the
\* history, the submit is counted by attemptCounter and answered with a tool
\* message; at the end of the turn the run does not stop as a success, it
\* stops on stagnation or at the attempt ceiling like after any failed submit,
\* and otherwise asks for another try.
C17_RunnerThrowIsFailedSubmit ==
    [][/\ (calls'.runTestAndAnalyze # calls.runTestAndAnalyze /\ jestRun'.threw)
            => /\ ~finalResult'.isNull
               /\ finalResult'.testPass = FALSE
               /\ finalResult'.failedTests = 0
               /\ finalResult'.passedTests = 0
               /\ finalResult'.totalTests = 0
               /\ finalResult'.successRate = 0
               /\ previousSuccessRates' = Append(previousSuccessRates, 0)
               /\ attemptCounter' = attemptCounter + 1
               /\ pc' \in {"dispatch", "afterDispatch"}
               /\ Len(pushed') = 1
               /\ pushed'[1].role = "tool"
       /\ (/\ pc = "afterDispatch"
           /\ hasEvaluateAndRunCall
           /\ calls.runTestAndAnalyze > 0
           /\ jestRun.threw)
            => /\ returned' = (IF pc' = "done" THEN finalResult ELSE returned)
               /\ IF /\ ThreeIdenticalRates
                     /\ attemptCounter > (IF variant = "budgeted" THEN 4 ELSE 3)
                  THEN pc' = "done" /\ pushed' = << >>
                  ELSE /\ pc' = (IF attemptCounter <= 5 THEN "callLLM" ELSE "done")
                       /\ Len(pushed') >= 1
                       /\ pushed'[1].role = "user"]_vars

\* three runner throws in a row have ended an unbudgeted run on stagnation
C17_Witness ==
    /\ pc = "done"
    /\ variant = "unbudgeted"
    /\ jestRun.threw
    /\ previousSuccessRates = << 0, 0, 0 >>
    /\ attemptCounter = 4
    /\ returned = finalResult
    /\ ~returned.testPass
    /\ toolCall.name = "evaluateAndRun"

\* the four numbers of a result are all 0
ZeroCounts(r) ==
    /\ r.failedTests = 0
    /\ r.passedTests = 0
    /\ r.totalTests = 0
    /\ r.successRate = 0

\* C18: for every runner outcome runTestAndAnalyze returns a result whose
\* testPass is true or false, and a runner log that is empty or has no
\* 'Tests: ... total' count line yields zero counts and testPass = false.
C18_GarbledLogIsFailedRun ==
    pc = "analysed"
        => /\ ~finalResult.isNull
           /\ finalResult.testPass \in BOOLEAN
           /\ (~jestRun.threw /\ (jestRun.log.empty \/ ~jestRun.log.count.present))
                => /\ ZeroCounts(finalResult)
                   /\ finalResult.testPass = FALSE

\* a log that is not empty, has no count line and none of the four markers
\* has been analysed: zero counts, and testPass is true
C18_GarbledLogPasses ==
    /\ pc = "analysed"
    /\ ~jestRun.threw
    /\ jestRun.log = [empty |-> FALSE, markers |-> {},
                       count |-> [present |-> FALSE, failed |-> -1, passed |-> -1, total |-> 0]]
    /\ ZeroCounts(finalResult)
    /\ finalResult.testPass = TRUE

\* C19: an output whose count line reads 'Tests: f failed, p passed, t total'
\* (t > 0) yields failedTests = f, passedTests = p, totalTests = t,
\* successRate = 100 * p / t, and testPass = false whenever f > 0.
C19_CountLineDecidesResult ==
    (/\ pc = "analysed"
     /\ ~jestRun.threw
     /\ jestRun.log.count.present
     /\ jestRun.log.count.failed >= 0
     /\ jestRun.log.count.passed >= 0
     /\ jestRun.log.count.total > 0)
        => /\ finalResult.failedTests = jestRun.log.count.failed
           /\ finalResult.passedTests = jestRun.log.count.passed
           /\ finalResult.totalTests = jestRun.log.count.total
           /\ finalResult.successRate * jestRun.log.count.total
                 = 100 * jestRun.log.count.passed
           /\ (jestRun.log.count.failed > 0 => finalResult.testPass = FALSE)

\* the output 'Tests: 2 failed, 3 passed, 5 total', which holds none of the
\* four markers, has been analysed: counts 2, 3, 5, rate 60, testPass true
C19_FailedCountPasses ==
    /\ pc = "analysed"
    /\ ~jestRun.threw
    /\ jestRun.log = [empty |-> FALSE, markers |-> {},
                       count |-> [present |-> TRUE, failed |-> 2, passed |-> 3, total |-> 5]]
    /\ finalResult.failedTests = 2
    /\ finalResult.passedTests = 3
    /\ finalResult.totalTests = 5
    /\ finalResult.successRate = 60
    /\ finalResult.testPass = TRUE

\* C20: for an output the runner returned, testPass is false exactly when the
\* output is empty or contains 'FAIL', 'No tests found', 'Not run' or
\* 'FATAL ERROR', whatever the count line reports; otherwise it is true.
C20_MarkersDecideTestPass ==
    (pc = "analysed" /\ ~jestRun.threw)
        => (finalResult.testPass = FALSE
              <=> \/ jestRun.log.empty
                  \/ "FAIL" \in jestRun.log.markers
                  \/ "No tests found" \in jestRun.log.markers
                  \/ "Not run" \in jestRun.log.markers
                  \/ "FATAL ERROR" \in jestRun.log.markers)

\* an output with 'Not run' in it and a count line of 5 passed out of 5 has
\* been analysed: rate 100, testPass false
C20_Witness ==
    /\ pc = "analysed"
    /\ ~jestRun.threw
    /\ jestRun.log.markers = {"Not run"}
    /\ jestRun.log.count = [present |-> TRUE, failed |-> 0, passed |-> 5, total |-> 5]
    /\ finalResult.successRate = 100
    /\ finalResult.testPass = FALSE

\* the first of .js, .jsx, .ts, .tsx whose file exists, "" when none does
FirstInStatedOrder(files) ==
    IF files[".js"] # "absent" THEN ".js"
    ELSE IF files[".jsx"] # "absent" THEN ".jsx"
    ELSE IF files[".ts"] # "absent" THEN ".ts"
    ELSE IF files[".tsx"] # "absent" THEN ".tsx"
    ELSE ""

\* C21: getComponentContent reads the exact path when it is a file; for a
\* directory the first existing index file in the order .js, .jsx, .ts, .tsx;
\* when nothing exists at the path the first existing file with one of these
\* extensions appended, in the same order; it gives null when nothing is
\* found or the read fails, and it never throws.
C21_ResolutionOrder ==
    pc = "read"
        => /\ ~fnResult.threw
           /\ fnArgs.atPath = "file"
                => fnResult = [isNull |-> FALSE, threw |-> FALSE, from |-> "exact", ext |-> ""]
           /\ fnArgs.atPath = "unreadable" => fnResult.isNull
           /\ fnArgs.atPath = "directory"
                => LET e == FirstInStatedOrder(fnArgs.index)
                   IN  IF e = "" \/ fnArgs.index[e] = "unreadable"
                       THEN fnResult.isNull
                       ELSE fnResult = [isNull |-> FALSE, threw |-> FALSE,
                                        from |-> "index", ext |-> e]
           /\ fnArgs.atPath = "absent"
                => LET e == FirstInStatedOrder(fnArgs.withExt)
                   IN  IF e = "" \/ fnArgs.withExt[e] = "unreadable"
                       THEN fnResult.isNull
                       ELSE fnResult = [isNull |-> FALSE, threw |-> FALSE,
                                        from |-> "withExt", ext |-> e]

\* a directory without index.js but with index.jsx and index.ts has been
\* resolved to index.jsx
C21_Witness ==
    /\ pc = "read"
    /\ fnArgs.atPath = "directory"
    /\ fnArgs.index[".js"] = "absent"
    /\ fnArgs.index[".jsx"] = "file"
    /\ fnArgs.index[".ts"] = "file"
    /\ fnResult.from = "index"
    /\ fnResult.ext = ".jsx"

\* the files a result lists
Listed(r) == { r.list[i] : i \in 1..Len(r.list) }

\* C22: findRtlReferenceTests returns at most 3 reference tests, never the
\* test file being converted, never throws, and returns the empty list when
\* any error occurred during the search.
C22_ReferenceTestsContract ==
    pc = "searched"
        => /\ ~fnResult.threw
           /\ Len(fnResult.list) <= 3
           /\ "T" \notin Listed(fnResult)
           /\ fnResult.errors > 0 => fnResult.list = << >>

\* the test being converted, passed under a spelling path.join does not give
\* back, is among the reference tests returned, and no error occurred
C22_OwnTestReturned ==
    /\ pc = "searched"
    /\ fnArgs.testPath = "other"
    /\ fnArgs.own = "rtl"
    /\ fnResult.errors = 0
    /\ "T" \in Listed(fnResult)

\* C23: for an origin file and a normalized reference that starts with './'
\* or '../' and does not cross the filesystem root, making the reference
\* absolute (getAbsolutePathFromRelativePath, getFileFromRelativeImports) and
\* relative again gives the reference back.
C23_RoundTrip ==
    pc = "roundTrip"
        => /\ fnResult.back = fnArgs.ref
           /\ fnResult.backFromFile = fnArgs.ref

\* './.c' from /a/t became /a/.c and came back as '.c'
C23_DotNameLosesPrefix ==
    /\ pc = "roundTrip"
    /\ fnArgs.origin = << "a", "t" >>
    /\ fnArgs.ref = << ".", ".c" >>
    /\ fnResult.absolute = << "a", ".c" >>
    /\ fnResult.file = << "a", ".c" >>
    /\ fnResult.back = << ".c" >>
    /\ fnResult.backFromFile = << ".c" >>

\* C24: for every origin file and absolute target the reference returned by
\* getRelativePathFromAbsolutePath starts with './' or '../' and has no
\* backslash in it.
C24_PrefixedForwardSlashes ==
    pc = "relative"
        => /\ Len(fnResult) >= 2
           /\ fnResult[1] \in {".", ".."}
           /\ \A i \in 1..Len(fnResult) : fnResult[i] # "d\\e"

\* the target /a/.c seen from /a/t has become '.c'
C24_DotNameUnprefixed ==
    /\ pc = "relative"
    /\ fnArgs.origin = << "a", "t" >>
    /\ fnArgs.target = << "a", ".c" >>
    /\ fnResult = << ".c" >>

\* C25: in the budgeted orchestrator, when a submit has failed, 2 or more
\* submits have been validated and updateComponent is enabled and unused,
\* the guidance pushed is the nudge toward the helpers and names every helper
\* that is still unused, updateComponent among them.
C25_NudgeNamesEveryUnusedHelper ==
    [][(/\ variant = "budgeted"
        /\ pc = "afterDispatch"
        /\ hasEvaluateAndRunCall
        /\ pushed' # << >>
        /\ calls.runTestAndAnalyze >= 2
        /\ ~disableUpdateComponent
        /\ ~usedFunctions["updateComponent"])
         => /\ pushed'[1].kind = "useHelpers"
            /\ pushed'[1].names
                 = { n \in {"requestForFile", "requestForReferenceTests", "updateComponent"} :
                       ~usedFunctions[n] }]_vars

\* after 2 failed submits with only updateComponent unused the nudge has been
\* pushed and names no helper at all
C25_NudgeNamesNothing ==
    /\ variant = "budgeted"
    /\ ~disableUpdateComponent
    /\ pc = "callLLM"
    /\ calls.runTestAndAnalyze >= 2
    /\ usedFunctions = [n \in {"requestForFile", "requestForReferenceTests", "updateComponent"}
                          |-> n # "updateComponent"]
    /\ Len(pushed) = 1
    /\ pushed[1].role = "user"
    /\ pushed[1].kind = "useHelpers"
    /\ pushed[1].names = {}

\* C26: in the budgeted orchestrator the guidance pushed after a failed submit
\* states MAX_ATTEMPTS minus the number of evaluateAndRun calls dispatched so
\* far, also when a turn held several of them, and has the 'final attempt'
\* wording exactly when one submit remains.
C26_RemainingIsCeilingMinusSubmits ==
    [][(/\ variant = "budgeted"
        /\ pc = "afterDispatch"
        /\ hasEvaluateAndRunCall
        /\ pushed' # << >>)
         => LET left == 5 - (attemptCounter - 1)
                stated == pushed'[Len(pushed')].remaining
            IN  /\ stated = 0 <=> left = 1
                /\ stated # 0 => stated = left]_vars

\* the first turn held two submits, both failed, and the guidance says 4
\* attempts remain
C26_TwoSubmitsCountedAsOne ==
    /\ variant = "budgeted"
    /\ pc = "callLLM"
    /\ calls.llmCallFunction = 1
    /\ calls.runTestAndAnalyze = 2
    /\ attemptCounter = 3
    /\ Len(pushed) = 1
    /\ pushed[1].role = "user"
    /\ pushed[1].remaining = 4

\* C27: in the budgeted orchestrator every llmCallFunction call is passed the
\* same tools, evaluateAndRun among them, and a well-formed submit made after
\* 2 failed submits with a helper still unused is validated like any other:
\* the runner is called, its rate is recorded and its logs are the tool result.
C27_SubmitAlwaysOffered ==
    [][/\ (variant = "budgeted" /\ calls'.llmCallFunction = calls.llmCallFunction + 1)
          => /\ "evaluateAndRun" \in toolsOffered'
             /\ toolsOffered'
                  = {"requestForFile", "requestForReferenceTests", "evaluateAndRun"}
                      \cup (IF disableUpdateComponent THEN {} ELSE {"updateComponent"})
             /\ (calls.llmCallFunction > 0 => toolsOffered' = toolsOffered)
       /\ (/\ variant = "budgeted"
           /\ pc = "dispatch"
           /\ toolCall'.name = "evaluateAndRun"
           /\ toolCall'.args = "file"
           /\ calls.runTestAndAnalyze >= 2
           /\ ~finalResult.testPass
           /\ \E n \in {"requestForFile", "requestForReferenceTests"} : ~usedFunctions[n])
          => /\ calls'.runTestAndAnalyze = calls.runTestAndAnalyze + 1
             /\ Len(previousSuccessRates') = Len(previousSuccessRates) + 1
             /\ previousSuccessRates'[Len(previousSuccessRates')] = finalResult'.successRate
             /\ pushed' = << Msg("tool", toolCall'.id, "evaluateAndRun", "runLogs", {}, -1) >>]_vars

\* a 3rd submit has been validated in a run that never used a helper and was
\* offered evaluateAndRun at its 3rd LLM call, after 2 failed submits
C27_Witness ==
    /\ variant = "budgeted"
    /\ calls.llmCallFunction = 3
    /\ calls.runTestAndAnalyze = 3
    /\ "evaluateAndRun" \in toolsOffered
    /\ usedFunctions = [n \in {"requestForFile", "requestForReferenceTests", "updateComponent"}
                          |-> FALSE]
    /\ toolCall.name = "evaluateAndRun"
    /\ Len(pushed) = 1
    /\ pushed[1].kind = "runLogs"
    /\ Len(previousSuccessRates) = 3

\* C28: in the budgeted orchestrator a turn ends the run as a success only
\* when the last result has testPass = true and typeCheckPass = true; after a
\* turn whose last result has testPass = true and typeCheckPass = false the
\* run stops on stagnation or guidance is pushed and the loop goes on while
\* attempts are left.
C28_SuccessNeedsTypeCheck ==
    [][(variant = "budgeted" /\ pc = "afterDispatch" /\ hasEvaluateAndRunCall)
         => LET stagnant == attemptCounter > 4 /\ LastThreeIdentical(previousSuccessRates)
            IN  /\ (pc' = "done" /\ pushed' = << >> /\ ~stagnant)
                     => /\ ~finalResult.isNull
                        /\ finalResult.testPass = TRUE
                        /\ finalResult.typeCheckPass = TRUE
                /\ (~finalResult.isNull /\ finalResult.testPass /\ ~finalResult.typeCheckPass)
                     => IF stagnant
                        THEN pc' = "done" /\ pushed' = << >>
                        ELSE /\ Len(pushed') = 1
                             /\ pushed'[1].role = "user"
                             /\ pushed'[1].kind \in {"tryAgain", "useHelpers"}
                             /\ pc' = (IF attemptCounter <= 5 THEN "callLLM" ELSE "done")]_vars

\* a submit that passed its tests but not the type check has been answered
\* with guidance, and the LLM is about to be called again
C28_Witness ==
    /\ variant = "budgeted"
    /\ pc = "callLLM"
    /\ toolCall.name = "evaluateAndRun"
    /\ ~finalResult.isNull
    /\ finalResult.testPass
    /\ ~finalResult.typeCheckPass
    /\ Len(pushed) = 1
    /\ pushed[1].role = "user"
    /\ pushed[1].kind = "tryAgain"

C30_InvalidUpdateIsAnswered ==
    [][(/\ pc = "dispatch"
        /\ toolCall'.name = "updateComponent"
        /\ toolCall'.args = "invalid")
         => /\ calls'.updateComponentContent = calls.updateComponentContent
            /\ Len(pushed') = 1
            /\ pushed'[1].role = "tool"
            /\ pushed'[1].id = toolCall'.id
            /\ pushed'[1].name = "updateComponent"
            /\ pushed'[1].kind \in {"error", "disabled", "limitReached"}
            /\ idx' = idx + 1
            /\ pc' = (IF idx + 1 <= toolCallsLen THEN "dispatch" ELSE "afterDispatch")]_vars

\* the first call of a turn of two was an updateComponent call without
\* newContent: it used the budget, got the error result, no file was touched,
\* and the second call is about to be dispatched
C30_Witness ==
    /\ variant = "budgeted"
    /\ ~disableUpdateComponent
    /\ pc = "dispatch"
    /\ idx = 2
    /\ toolCall.name = "updateComponent"
    /\ toolCall.args = "invalid"
    /\ toolCall.id = 1
    /\ Len(pushed) = 1
    /\ pushed[1].role = "tool"
    /\ pushed[1].kind = "error"
    /\ functionCallCounts["updateComponent"] = 1
    /\ calls.updateComponentContent = 0

\* C34: the stagnation stop (a turn that held an evaluateAndRun call and was
\* not a success ends the run without guidance) only fires when at least 3
\* success rates have been recorded in previousSuccessRates.
C34_StagnationNeedsThreeRates ==
    [][(/\ pc = "afterDispatch"
        /\ hasEvaluateAndRunCall
        /\ ~(/\ ~finalResult.isNull
             /\ finalResult.testPass
             /\ (variant = "budgeted" => finalResult.typeCheckPass))
        /\ pc' = "done"
        /\ pushed' = << >>)
         => Len(previousSuccessRates) >= 3]_vars

\* a budgeted run of four evaluateAndRun calls, none of which parsed, has been
\* ended by the stagnation rule with no rate recorded and returns null
C34_StoppedWithoutAnyRate ==
    /\ variant = "budgeted"
    /\ pc = "done"
    /\ toolCall.name = "evaluateAndRun"
    /\ toolCall.args = "badjson"
    /\ attemptCounter = 5
    /\ calls.llmCallFunction = 4
    /\ calls.runTestAndAnalyze = 0
    /\ previousSuccessRates = << >>
    /\ pushed = << >>
    /\ returned.isNull

\* C35: when a run has returned a result, no updateComponentContent write has
\* occurred after the validation that produced it.
C35_NoWriteAfterReturnedRun ==
    (pc = "done" /\ ~returned.isNull) => ~writtenSinceRun

\* a turn of evaluateAndRun followed by updateComponent: the submit passed
\* tests and type check, the component was then rewritten, and the run has
\* returned the passing result
C35_ComponentRewrittenAfterPass ==
    /\ variant = "budgeted"
    /\ pc = "done"
    /\ calls.llmCallFunction = 1
    /\ calls.runTestAndAnalyze = 1
    /\ calls.updateComponentContent = 1
    /\ toolCall = [id |-> 2, name |-> "updateComponent", args |-> "valid"]
    /\ writtenSinceRun
    /\ ~returned.isNull
    /\ returned.testPass
    /\ returned.typeCheckPass
    /\ returned = finalResult

\* C36: a run ends after a bounded number of LLM calls whatever the agent
\* answers: every iteration of the loop that does not end the run leaves
\* attemptCounter, the one quantity the loop condition tests, larger than it
\* was when the iteration began (attemptsRemaining is MAX_ATTEMPTS minus that
\* value).
C36_EveryTurnUsesAnAttempt ==
    [][(pc \in {"callLLM", "afterDispatch"} /\ pc' = "callLLM")
         => attemptCounter' > 5 - attemptsRemaining']_vars

\* six LLM calls have been answered with text alone and the run is where it
\* began: first attempt, nothing recorded, the loop about to call again
C36_TextOnlyAgentNeverAdvances ==
    /\ pc = "callLLM"
    /\ calls.llmCallFunction = 6
    /\ response = "text"
    /\ attemptCounter = 1
    /\ attemptsRemaining = 4
    /\ previousSuccessRates = << >>
    /\ finalResult.isNull
    /\ calls.runTestAndAnalyze = 0

\* C37: in the budgeted orchestrator the count of each helper equals the
\* number of invocations of its operation: getComponentContent for
\* requestForFile, findRtlReferenceTests for requestForReferenceTests,
\* updateComponentContent for updateComponent.
C37_CountsEqualInvocations ==
    variant = "budgeted"
        => /\ functionCallCounts["requestForFile"] = calls.getComponentContent
           /\ functionCallCounts["requestForReferenceTests"] = calls.findRtlReferenceTests
           /\ functionCallCounts["updateComponent"] = calls.updateComponentContent

\* a well-formed updateComponent call has been refused for the limit although
\* updateComponentContent was never invoked: an earlier rejected call used
\* the one unit
C37_BudgetSpentOnRejectedCall ==
    /\ variant = "budgeted"
    /\ ~disableUpdateComponent
    /\ toolCall.name = "updateComponent"
    /\ toolCall.args = "valid"
    /\ Len(pushed) = 1
    /\ pushed[1].kind = "limitReached"
    /\ functionCallCounts["updateComponent"] = 1
    /\ calls.updateComponentContent = 0

\* C39: the reference tests findRtlReferenceTests returns have pairwise
\* distinct paths.
C39_DistinctReferenceTests ==
    pc = "searched"
        => \A i, j \in 1..Len(fnResult.list) :
              fnResult.list[i] = fnResult.list[j] => i = j

\* with searchDepth 2 and one matching test file "A" beside the test, "A" has
\* been returned twice: once from the test's directory and once from the
\* parent directory, whose search descends into the test's directory again
C39_SameFileTwice ==
    /\ pc = "searched"
    /\ fnArgs.searchDepth = 2
    /\ fnArgs.testPath = "joined"
    /\ fnArgs.readdirThrows = "none"
    /\ fnArgs.kind = [f \in {"A", "B", "C", "D"} |-> IF f = "A" THEN "rtl" ELSE "absent"]
    /\ fnResult.list = << "A", "A" >>
    /\ fnResult.errors = 0

C31_TestRunCompleteBeforeNextStep ==
    /\ pc = "cleanupSnapshots" => testRuns[filePaths[fileIndex]] # "running"
    /\ pc \in {"loop", "getReactCompDom", "returned"}
           => \A i \in 1..Len(filePaths) : testRuns[filePaths[i]] # "running"

\* cleanupSnapshots has run for a file whose original holds the converted
\* content while the test run on it is still going
C31_CleanedUpDuringTestRun ==
    /\ pc = "store"
    /\ filePaths[fileIndex] \in cleanedUp
    /\ originals[filePaths[fileIndex]] = "rtl"
    /\ testRuns[filePaths[fileIndex]] = "running"

\* C32: with onlyConvertFullyPassingTests, an original test file holds the
\* converted content only if the file's result has testPass and typeCheckPass.
C32_OverwritesOnlyFullyPassing ==
    (onlyConvertFullyPassingTests /\ pc = "cleanupSnapshots"
        /\ originals[filePaths[fileIndex]] = "rtl")
        => (transformationResult.testPass /\ transformationResult.typeCheckPass)

\* with onlyConvertFullyPassingTests, the original has been overwritten for a
\* result whose tests pass and whose type check fails
C32_OverwrittenWithTypeErrors ==
    /\ onlyConvertFullyPassingTests
    /\ pc = "cleanupSnapshots"
    /\ transformationResult.testPass
    /\ ~transformationResult.typeCheckPass
    /\ originals[filePaths[fileIndex]] = "rtl"
    /\ testRuns[filePaths[fileIndex]] = "running"

\* C33: when attemptAndValidateTransformation resolves to null for a file,
\* the file gets a failing result with zero counts under its key, no original
\* is written and no test run started, and the loop goes on to the next file;
\* the summary written after the loop holds the results, and the write fails
\* only when no file got a config.
C33_NullResultRecordedAndLoopContinues ==
    [][/\ (pc = "attemptAndValidateTransformation" /\ pc' # pc /\ transformationResult'.isNull)
            => /\ filePathClean(filePaths[fileIndex]) \in DOMAIN totalResults'
               /\ totalResults'[filePathClean(filePaths[fileIndex])]
                      = [isNull |-> FALSE, testPass |-> FALSE, typeCheckPass |-> FALSE,
                         failedTests |-> 0, passedTests |-> 0, totalTests |-> 0,
                         successRate |-> 0]
               /\ originals' = originals
               /\ testRuns' = testRuns
               /\ cleanedUp' = cleanedUp
               /\ pc' = "loop"
               /\ fileIndex' = fileIndex + 1
       /\ pc' = "threw" => initialized' = {}
       /\ pc' = "returned" => generatedSummary'.results = totalResults']_vars

\* convertTestFiles has returned after a null result for /b, its first file,
\* and a passing one for /a.a: /b has the zero result and its original is
\* untouched, /a.a has been overwritten
C33_ReturnedAfterNullResult ==
    /\ pc = "returned"
    /\ filePaths = << << "/", "b" >>, << "/", "a", ".", "a" >> >>
    /\ << "-", "b" >> \in DOMAIN generatedSummary.results
    /\ generatedSummary.results[<< "-", "b" >>].totalTests = 0
    /\ ~generatedSummary.results[<< "-", "b" >>].testPass
    /\ originals[<< "/", "b" >>] = "enzyme"
    /\ << "/", "b" >> \notin cleanedUp
    /\ originals[<< "/", "a", ".", "a" >>] = "rtl"
    /\ generatedSummary.summary.totalTests = 2

\* C40: when convertTestFiles has returned, the summary holds one entry for
\* every file that was not skipped and got a config.
C40_OneEntryPerProcessedFile ==
    pc = "returned"
        => Cardinality(DOMAIN generatedSummary.results) = Cardinality(initialized)

\* /a.a and /a-a were both converted and the summary holds the single entry
\* -a-a, the result of the file processed last
C40_TwoFilesOneEntry ==
    /\ pc = "returned"
    /\ filePaths = << << "/", "a", ".", "a" >>, << "/", "a", "-", "a" >> >>
    /\ initialized = { << "/", "a", ".", "a" >>, << "/", "a", "-", "a" >> }
    /\ cleanedUp = initialized
    /\ DOMAIN generatedSummary.results = { << "-", "a", "-", "a" >> }
    /\ generatedSummary.summary.totalTests = 2

====
